---- MODULE Spec2Model ----
(***************************************************************************)
(* Model of the stratagems-tools value-tracking API: the Lookup tables,    *)
(* the duplicate detection job (WarningDetectionJob), the Warning store,  *)
(* the cron manager, the server start-up, and the Set Engine              *)
(* (SetController) with the single and bulk value requests.               *)
(*                                                                         *)
(* Strings are sequences of one-character strings, so that the pair key   *)
(* `${left}|${right}` and its split("|") are computed, not assumed.       *)
(***************************************************************************)
EXTENDS Integers, Sequences, FiniteSets, TLC

VARIABLES
    lookups,        \* Lookup rows: set of [id, name]
    lookupValues,   \* LookupValue rows: set of [id, lookupId, left, right]
    nextValueId,    \* next LookupValue id the store hands out
    warnings,       \* Warning rows: set of records, see createMany
    nextWarningId,  \* next Warning id the store hands out
    jobPc,          \* position of the running WarningDetectionJob.execute()
    jobWarnings,    \* the local array `warnings` of checkLookupDuplicates
    jobRuns,        \* number of executions started
    jobRead,        \* the LookupValue rows the running execution read
    jobPrior,       \* the Warning rows the execution found stored and deleted
    lastRun,        \* what the last clean execution inserted
    observed,       \* the response of the listWarnings request just answered
    cronJobs,       \* CronManager.jobs: name -> status of its scheduled task
    cronRunning,    \* executions of wrappedTask in flight, per job name
    nodeEnv,        \* config.NODE_ENV
    serverPc,       \* position of startServer / gracefulShutdown
    sets,           \* Set rows: set of [id, name, allowDuplicates, strictChecking]
    setValues,      \* SetValue rows: set of [id, setId, value]
    nextSetId,      \* next Set id the store hands out
    nextSetValueId, \* number of the next SetValue id the store hands out
    inflight,       \* per client, the request being served and its locals
    response        \* the response just sent

vars == <<lookups, lookupValues, nextValueId, warnings, nextWarningId,
          jobPc, jobWarnings, jobRuns, jobRead, jobPrior, lastRun, observed,
          cronJobs, cronRunning, nodeEnv, serverPc,
          sets, setValues, nextSetId, nextSetValueId, inflight, response>>

storeVars == <<lookups, lookupValues, nextValueId, warnings, nextWarningId>>
jobVars == <<jobPc, jobWarnings, jobRuns, jobRead, jobPrior, lastRun>>
cronVars == <<cronJobs, cronRunning>>
serverVars == <<nodeEnv, serverPc>>
setVars == <<sets, setValues, nextSetId, nextSetValueId>>
engineVars == <<setVars, inflight, response>>

----------------------------------------------------------------------------
(* Bounds *)

MaxValues == 3      \* LookupValue rows ever inserted
MaxRuns == 2        \* executions of the detection job
MaxAdds == 2        \* addValue requests answered while the job is run by hand
MaxOverlap == 3     \* executions of one cron task in flight

(* The strings a request may carry as left or right: all of them pass     *)
(* addLookupValueSchema (1..255 characters, any character).               *)
Strings == { <<"a">>, <<"a", "|", "a">>, <<"|">> }

(* The names under which cron jobs are registered *)
JobNames == { "warning-detection", "cleanup" }

(* The Lookups that exist (created before the behaviours modelled here).  *)
SeedLookups == { [id |-> 1, name |-> "orders"],
                 [id |-> 2, name |-> "customers"] }

----------------------------------------------------------------------------
(* Generic helpers *)

RECURSIVE Concat(_)
Concat(ss) == IF ss = <<>> THEN <<>> ELSE Head(ss) \o Concat(Tail(ss))

RECURSIVE SortedIds(_)
SortedIds(S) ==
    IF S = {} THEN <<>>
    ELSE LET m == CHOOSE x \in S : \A y \in S : x <= y
         IN  <<m>> \o SortedIds(S \ {m})

SeqToSet(s) == { s[i] : i \in 1..Len(s) }

(* String.prototype.split("|") *)
RECURSIVE SplitAcc(_, _, _)
SplitAcc(s, cur, out) ==
    IF s = <<>> THEN Append(out, cur)
    ELSE IF Head(s) = "|" THEN SplitAcc(Tail(s), <<>>, Append(out, cur))
    ELSE SplitAcc(Tail(s), Append(cur, Head(s)), out)

split(s) == SplitAcc(s, <<>>, <<>>)

(* addLookupValueSchema: left and right are strings of 1..255 characters  *)
MaxStringLength == 255
addLookupValueSchema(left, right) ==
    /\ Len(left) >= 1 /\ Len(left) <= MaxStringLength
    /\ Len(right) >= 1 /\ Len(right) <= MaxStringLength

----------------------------------------------------------------------------
(* WarningDetectionJob: the grouping functions *)

(* A Map<string, string[]> filled by has/set/get.push over `pairs`, a     *)
(* sequence of [key, id]; the result lists the entries in insertion order *)
RECURSIVE groupByKey(_, _)
groupByKey(pairs, groups) ==
    IF pairs = <<>> THEN groups
    ELSE LET p == Head(pairs)
             hit == { i \in 1..Len(groups) : groups[i].key = p.key }
         IN  IF hit = {}
             THEN groupByKey(Tail(pairs),
                      Append(groups, [key |-> p.key, ids |-> <<p.id>>]))
             ELSE LET i == CHOOSE j \in hit : TRUE
                  IN  groupByKey(Tail(pairs),
                          [groups EXCEPT ![i].ids = Append(@, p.id)])

leftKey(value) == value.left
rightKey(value) == value.right

pairKey(value) == value.left \o <<"|">> \o value.right

findLeftDuplicates(values) ==
    LET leftGroups == groupByKey(
            [i \in 1..Len(values) |-> [key |-> leftKey(values[i]), id |-> values[i].id]], <<>>)
        dups == SelectSeq(leftGroups, LAMBDA g : Len(g.ids) > 1)
    IN  [i \in 1..Len(dups) |->
            [value |-> dups[i].key, count |-> Len(dups[i].ids), ids |-> dups[i].ids]]

findRightDuplicates(values) ==
    LET rightGroups == groupByKey(
            [i \in 1..Len(values) |-> [key |-> rightKey(values[i]), id |-> values[i].id]], <<>>)
        dups == SelectSeq(rightGroups, LAMBDA g : Len(g.ids) > 1)
    IN  [i \in 1..Len(dups) |->
            [value |-> dups[i].key, count |-> Len(dups[i].ids), ids |-> dups[i].ids]]

(* const [left, right] = pairKey.split("|"); if (!left || !right) return  *)
validPairKey(key) ==
    LET parts == split(key)
    IN  /\ parts[1] # <<>>
        /\ Len(parts) >= 2 /\ parts[2] # <<>>

findLeftRightDuplicates(values) ==
    LET pairGroups == groupByKey(
            [i \in 1..Len(values) |-> [key |-> pairKey(values[i]), id |-> values[i].id]], <<>>)
        dups == SelectSeq(pairGroups,
                    LAMBDA g : Len(g.ids) > 1 /\ validPairKey(g.key))
    IN  [i \in 1..Len(dups) |->
            [left |-> split(dups[i].key)[1], right |-> split(dups[i].key)[2],
             count |-> Len(dups[i].ids), ids |-> dups[i].ids]]

(* leftRightDuplicates.some((d) => d.ids.includes(valueId)) *)
coveredNever(leftRightDuplicates, valueId) == FALSE
coveredByLeftRight(leftRightDuplicates, valueId) ==
    \E i \in 1..Len(leftRightDuplicates) :
        valueId \in SeqToSet(leftRightDuplicates[i].ids)

newWarning(lookup, valueId, l, r, lr, sev) ==
    [type |-> "lookup", typeName |-> lookup.name, typeId |-> lookup.id,
     itemId |-> valueId, leftDuplicate |-> l, rightDuplicate |-> r,
     leftRightDuplicate |-> lr, severity |-> sev]

(* the two MEDIUM loops: one Warning per id of every group, unless covered *)
singleSideWarnings(lookup, dups, leftRightDuplicates, isLeft) ==
    Concat([i \in 1..Len(dups) |->
        LET kept == SelectSeq(dups[i].ids,
                        LAMBDA id : ~coveredByLeftRight(leftRightDuplicates, id))
        IN  [j \in 1..Len(kept) |->
                newWarning(lookup, kept[j], isLeft, ~isLeft, FALSE, "MEDIUM")]])

(* the HIGH loop *)
leftRightWarnings(lookup, leftRightDuplicates) ==
    Concat([i \in 1..Len(leftRightDuplicates) |->
        [j \in 1..Len(leftRightDuplicates[i].ids) |->
            newWarning(lookup, leftRightDuplicates[i].ids[j],
                       FALSE, FALSE, TRUE, "HIGH")]])

(* lookup.values of prisma.lookup.findMany({include: {values: true}}),    *)
(* in id order                                                             *)
valuesOf(rows, lookup) ==
    LET ids == SortedIds({ v.id : v \in { r \in rows : r.lookupId = lookup.id } })
    IN  [i \in 1..Len(ids) |-> CHOOSE v \in rows : v.id = ids[i]]

(* the body of `for (const lookup of lookups)` *)
lookupWarnings(rows, lookup) ==
    LET values == valuesOf(rows, lookup)
        leftDuplicates == findLeftDuplicates(values)
        rightDuplicates == findRightDuplicates(values)
        leftRightDuplicates == findLeftRightDuplicates(values)
    IN  singleSideWarnings(lookup, leftDuplicates, leftRightDuplicates, TRUE)
        \o singleSideWarnings(lookup, rightDuplicates, leftRightDuplicates, FALSE)
        \o leftRightWarnings(lookup, leftRightDuplicates)

(* the array `warnings` when the loop over all lookups has finished; the  *)
(* lookups come in id (creation) order                                     *)
computeWarnings(ls, rows) ==
    LET ids == SortedIds({ l.id : l \in ls })
    IN  Concat([i \in 1..Len(ids) |->
            lookupWarnings(rows, CHOOSE l \in ls : l.id = ids[i])])

----------------------------------------------------------------------------
(* The Warning store *)

(* prisma.warning.deleteMany({ where: { type: "lookup" } }) *)
deleteManyKeepResolved(ws) == { w \in ws : w.type # "lookup" \/ w.isResolved }
deleteManyNothing(ws) == ws
deleteMany(ws) == { w \in ws : w.type # "lookup" }

(* prisma.warning.createMany({ data, skipDuplicates: true }): every row   *)
(* gets a fresh id and the column defaults (isResolved = false)           *)
createMany(ws, data, firstId) ==
    ws \cup { [id |-> firstId + i - 1, type |-> data[i].type,
               typeName |-> data[i].typeName, typeId |-> data[i].typeId,
               itemId |-> data[i].itemId,
               leftDuplicate |-> data[i].leftDuplicate,
               rightDuplicate |-> data[i].rightDuplicate,
               leftRightDuplicate |-> data[i].leftRightDuplicate,
               severity |-> data[i].severity,
               isResolved |-> FALSE, resolvedBy |-> "null"]
              : i \in 1..Len(data) }

(* what a Warning row says, its id and resolution aside *)
finding(w) ==
    [type |-> w.type, typeName |-> w.typeName, typeId |-> w.typeId,
     itemId |-> w.itemId, leftDuplicate |-> w.leftDuplicate,
     rightDuplicate |-> w.rightDuplicate,
     leftRightDuplicate |-> w.leftRightDuplicate, severity |-> w.severity]

lookupWarningsStored(ws) == { w \in ws : w.type = "lookup" }

(* how often each finding occurs among stored rows, and in an array *)
BagOfStored(ws) ==
    [f \in { finding(w) : w \in ws } |->
        Cardinality({ w \in ws : finding(w) = f })]
BagOfSeq(s) ==
    [f \in SeqToSet(s) |-> Cardinality({ i \in 1..Len(s) : s[i] = f })]

(* listWarnings: resolved is z.string().optional().transform(v => v ===   *)
(* "true"), so it is a boolean also when the parameter is absent          *)
resolvedFilter(param) == (param = "true")

whereClause(w, type, resolved) ==
    /\ (type # "absent" => w.type = type)
    /\ w.isResolved = resolvedFilter(resolved)

----------------------------------------------------------------------------
(* Lookup Engine requests used here *)

NoRun == [stored |-> BagOfSeq(<<>>), clean |-> FALSE, changed |-> FALSE]
NoPrior == [atStart |-> {}, deleted |-> {}, same |-> FALSE]
NoObservation == [resolved |-> "absent", seen |-> {}, during |-> "none", run |-> 0]

(* LookupController.addLookupValue as a function of the tables: the      *)
(* status it answers and the LookupValue rows it leaves                    *)
addLookupValue(ls, rows, k, name, left, right) ==
    IF ~addLookupValueSchema(left, right)
    THEN [status |-> 400, rows |-> rows]
    ELSE IF ~\E lookupData \in ls : lookupData.name = name
    THEN [status |-> 404, rows |-> rows]
    ELSE LET lookupData == CHOOSE l \in ls : l.name = name
         IN  [status |-> 201,
              rows |-> rows \cup { [id |-> k, lookupId |-> lookupData.id,
                                    left |-> left, right |-> right] }]

(* LookupController.addLookupValue, a request that is answered 201 *)
AddLookupValue(name, left, right) ==
    /\ nextValueId <= MaxValues
    /\ LET answer == addLookupValue(lookups, lookupValues, nextValueId,
                                    name, left, right)
       IN  /\ answer.status = 201
           /\ lookupValues' = answer.rows
    /\ nextValueId' = nextValueId + 1
    /\ lastRun' = [lastRun EXCEPT !.changed = TRUE]
    /\ observed' = NoObservation
    /\ UNCHANGED <<lookups, warnings, nextWarningId>>
    /\ UNCHANGED <<jobPc, jobWarnings, jobRuns, jobRead, jobPrior>>
    /\ UNCHANGED <<cronVars, serverVars, engineVars>>

(* LookupController.removeLookupValue as a function of the tables: the    *)
(* Lookup is looked up by name, the value by id alone                      *)
removeLookupValue(ls, rows, name, valueId) ==
    IF ~\E lookupData \in ls : lookupData.name = name
    THEN [status |-> 404, rows |-> rows]
    ELSE IF ~\E value \in rows : value.id = valueId
    THEN [status |-> 404, rows |-> rows]
    ELSE [status |-> 200, rows |-> { value \in rows : value.id # valueId }]

(* LookupController.removeLookupValue, a request that is answered 200 *)
RemoveLookupValue(name, valueId) ==
    /\ LET answer == removeLookupValue(lookups, lookupValues, name, valueId)
       IN  /\ answer.status = 200
           /\ lookupValues' = answer.rows
    /\ lastRun' = [lastRun EXCEPT !.changed = TRUE]
    /\ observed' = NoObservation
    /\ UNCHANGED <<lookups, nextValueId, warnings, nextWarningId>>
    /\ UNCHANGED <<jobPc, jobWarnings, jobRuns, jobRead, jobPrior>>
    /\ UNCHANGED <<cronVars, serverVars, engineVars>>

----------------------------------------------------------------------------
(* Warning Ledger requests used here *)

(* WarningController.resolveWarning *)
ResolveWarning(id, user) ==
    /\ \E warning \in warnings :
          /\ warning.id = id
          /\ ~warning.isResolved
          /\ warnings' = (warnings \ {warning}) \cup
                 { [warning EXCEPT !.isResolved = TRUE, !.resolvedBy = user] }
    /\ observed' = NoObservation
    /\ UNCHANGED <<lookups, lookupValues, nextValueId, nextWarningId>>
    /\ UNCHANGED <<jobVars, cronVars, serverVars, engineVars>>

(* WarningController.listWarnings, the findMany of a request whose page   *)
(* holds every matching row                                                *)
ListWarnings(type, resolved) ==
    /\ observed' = [resolved |-> resolved,
                    seen |-> { w \in warnings : whereClause(w, type, resolved) },
                    during |-> jobPc, run |-> jobRuns]
    /\ UNCHANGED <<storeVars, jobVars, cronVars, serverVars, engineVars>>

----------------------------------------------------------------------------
(* WarningDetectionJob.execute, one action per store call *)

(* execute() is entered; prisma.$queryRaw`SELECT 1` answers *)
JobExecute ==
    /\ jobPc \in {"idle", "failed"}
    /\ jobRuns < MaxRuns
    /\ jobPc' = "started"
    /\ jobRuns' = jobRuns + 1
    /\ jobPrior' = [atStart |-> { w.id : w \in lookupWarningsStored(warnings) },
                    deleted |-> {}, same |-> FALSE]
    /\ observed' = NoObservation
    /\ UNCHANGED <<jobWarnings, jobRead, lastRun>>
    /\ UNCHANGED <<storeVars, cronVars, serverVars, engineVars>>

(* prisma.lookup.findMany({ include: { values: true } }) answers and the  *)
(* loop over the lookups fills `warnings`                                  *)
JobFindMany ==
    /\ jobPc = "started"
    /\ jobPc' = "scanned"
    /\ jobRead' = lookupValues
    /\ jobWarnings' = computeWarnings(lookups, lookupValues)
    /\ jobPrior' = [jobPrior EXCEPT !.same = lastRun.clean /\ ~lastRun.changed]
    /\ lastRun' = [lastRun EXCEPT !.changed = FALSE]
    /\ observed' = NoObservation
    /\ UNCHANGED jobRuns
    /\ UNCHANGED <<storeVars, cronVars, serverVars, engineVars>>

(* prisma.warning.deleteMany answers *)
JobDeleteMany ==
    /\ jobPc = "scanned"
    /\ jobPc' = "deleted"
    /\ warnings' = deleteMany(warnings)
    /\ jobPrior' = [jobPrior EXCEPT !.deleted = warnings \ deleteMany(warnings)]
    /\ observed' = NoObservation
    /\ UNCHANGED <<lookups, lookupValues, nextValueId, nextWarningId>>
    /\ UNCHANGED <<jobWarnings, jobRuns, jobRead, lastRun>>
    /\ UNCHANGED <<cronVars, serverVars, engineVars>>

(* prisma.warning.createMany answers (it is skipped for an empty array)   *)
(* and execute() returns                                                   *)
JobCreateMany ==
    /\ jobPc = "deleted"
    /\ jobPc' = "idle"
    /\ IF Len(jobWarnings) > 0
       THEN /\ warnings' = createMany(warnings, jobWarnings, nextWarningId)
            /\ nextWarningId' = nextWarningId + Len(jobWarnings)
       ELSE UNCHANGED <<warnings, nextWarningId>>
    /\ lastRun' = [stored |-> BagOfStored(lookupWarningsStored(warnings')),
                   clean |-> TRUE,
                   changed |-> lastRun.changed]
    /\ jobWarnings' = <<>>
    /\ jobRead' = {}
    /\ jobPrior' = NoPrior
    /\ observed' = NoObservation
    /\ UNCHANGED <<lookups, lookupValues, nextValueId, jobRuns>>
    /\ UNCHANGED <<cronVars, serverVars, engineVars>>

(* one of the store calls rejects: checkLookupDuplicates and execute log  *)
(* and rethrow                                                             *)
JobThrow ==
    /\ jobPc \in {"started", "scanned", "deleted"}
    /\ jobPc' = "failed"
    /\ lastRun' = NoRun
    /\ jobWarnings' = <<>>
    /\ jobRead' = {}
    /\ observed' = NoObservation
    /\ UNCHANGED <<jobRuns, jobPrior>>
    /\ UNCHANGED <<storeVars, cronVars, serverVars, engineVars>>

----------------------------------------------------------------------------
(* Set Engine: the store                                                   *)

MaxSets == 2        \* Set rows ever created
MaxSetValues == 2   \* SetValue rows ever inserted by single addValue requests

Clients == { "c1", "c2" }

Idle == [op |-> "idle"]
NoResponse == [op |-> "none"]
NoSet == [id |-> 0]

(* the characters of /^[a-zA-Z0-9_-]+$/ *)
NameChars ==
    { "a", "b", "c", "d", "e", "f", "g", "h", "i", "j", "k", "l", "m",
      "n", "o", "p", "q", "r", "s", "t", "u", "v", "w", "x", "y", "z",
      "A", "B", "C", "D", "E", "F", "G", "H", "I", "J", "K", "L", "M",
      "N", "O", "P", "Q", "R", "S", "T", "U", "V", "W", "X", "Y", "Z",
      "0", "1", "2", "3", "4", "5", "6", "7", "8", "9", "_", "-" }

MaxNameLength == 100

(* createSetSchema, the name *)
createSetSchema(name) ==
    /\ Len(name) >= 1
    /\ Len(name) <= MaxNameLength
    /\ \A i \in 1..Len(name) : name[i] \in NameChars

(* addSetValueSchema, the value *)
addSetValueSchema(value) == Len(value) >= 1 /\ Len(value) <= MaxStringLength

(* a number in decimal digits *)
RECURSIVE decimal(_)
decimal(k) ==
    LET d == <<"0", "1", "2", "3", "4", "5", "6", "7", "8", "9">>[(k % 10) + 1]
    IN  IF k < 10 THEN <<d>> ELSE Append(decimal(k \div 10), d)

(* the id the store gives the k-th SetValue row: a string, like its value *)
valueIdOf(k) == <<"c">> \o decimal(k)

(* prisma.set.findUnique / findFirst({ where: { name } }) *)
findSetByName(ss, name) ==
    IF \E s \in ss : s.name = name
    THEN CHOOSE s \in ss : s.name = name
    ELSE NoSet

(* Set.name is unique in the store: a second row of that name is P2002 *)
nameTaken(ss, name, id) == \E s \in ss : s.name = name /\ s.id # id

(* SetValue.setId is a foreign key to Set.id *)
foreignKeyAny(ss, setId) == TRUE
foreignKeyHolds(ss, setId) == \E s \in ss : s.id = setId

(* when prisma.setValue.create throws: the Set row is gone; no column of  *)
(* the Set and no row of the table makes it throw                          *)
createRejectedOnDuplicate(ss, rows, setData, value) ==
    \/ ~foreignKeyHolds(ss, setData.id)
    \/ /\ ~setData.allowDuplicates
       /\ \E v \in rows : v.setId = setData.id /\ v.value = value
createRejected(ss, rows, setData, value) == ~foreignKeyHolds(ss, setData.id)

(* prisma.setValue.create *)
setValueCreate(rows, setData, value, k) ==
    rows \cup { [id |-> valueIdOf(k), setId |-> setData.id, value |-> value] }

(* the where clause of removeSetValue's deleteMany *)
removeWhereWholeSet(v, setData, valueId) == v.setId = setData.id
removeWhere(v, setData, valueId) ==
    v.id = valueId \/ (v.setId = setData.id /\ v.value = valueId)

(* prisma.setValue.findFirst({ where: { setId, value } }): a matching row  *)
(* if there is one (the first the store finds), NoSet's shape otherwise    *)
findFirstMatchesById(rows, setData, value) ==
    { v \in rows : v.setId = setData.id /\ v.id = value }
findFirstMatches(rows, setData, value) ==
    { v \in rows : v.setId = setData.id /\ v.value = value }

(* prisma.set.delete: the row and, by the cascade, the values it owns *)
valuesAfterSetDelete(rows, setId) == { v \in rows : v.setId # setId }

Respond(c, r) ==
    /\ inflight' = [inflight EXCEPT ![c] = Idle]
    /\ response' = r

Await(c, locals) ==
    /\ inflight' = [inflight EXCEPT ![c] = locals]
    /\ response' = NoResponse

notEngineVars == <<storeVars, jobVars, observed, cronVars, serverVars>>

(* no Set, no request in flight *)
InitEngineIdle ==
    /\ sets = {}
    /\ setValues = {}
    /\ nextSetId = 1
    /\ nextSetValueId = 1
    /\ inflight = [c \in Clients |-> Idle]
    /\ response = NoResponse

----------------------------------------------------------------------------
(* Set Engine: SetController.  A handler is one action per awaited store   *)
(* call; inflight[c] holds its locals between two calls.                   *)

(* SetController.createSet *)
CreateSet(c, name, allowDuplicates, strictChecking) ==
    /\ inflight[c] = Idle
    /\ IF ~createSetSchema(name)
       THEN /\ Respond(c, [op |-> "createSet", status |-> 400, name |-> name])
            /\ UNCHANGED setVars
       ELSE IF nameTaken(sets, name, 0)
       THEN /\ Respond(c, [op |-> "createSet", status |-> 409, name |-> name])
            /\ UNCHANGED setVars
       ELSE /\ sets' = sets \cup
                   { [id |-> nextSetId, name |-> name,
                      allowDuplicates |-> allowDuplicates,
                      strictChecking |-> strictChecking] }
            /\ nextSetId' = nextSetId + 1
            /\ Respond(c, [op |-> "createSet", status |-> 201, name |-> name])
            /\ UNCHANGED <<setValues, nextSetValueId>>
    /\ UNCHANGED notEngineVars

(* SetController.addSetValue, up to prisma.set.findUnique *)
AddSetValueFind(c, name, value) ==
    /\ inflight[c] = Idle
    /\ LET setData == findSetByName(sets, name)
       IN  IF ~addSetValueSchema(value)
           THEN Respond(c, [op |-> "addSetValue", status |-> 500])
           ELSE IF setData.id = NoSet.id
           THEN Respond(c, [op |-> "addSetValue", status |-> 404])
           ELSE Await(c, [op |-> "addSetValue", setData |-> setData,
                          value |-> value])
    /\ UNCHANGED <<setVars, notEngineVars>>

(* SetController.addSetValue, prisma.setValue.create and the answer *)
AddSetValueCreate(c) ==
    /\ inflight[c].op = "addSetValue"
    /\ LET setData == inflight[c].setData
           value == inflight[c].value
       IN  IF ~createRejected(sets, setValues, setData, value)
           THEN /\ setValues' = setValueCreate(setValues, setData, value,
                                               nextSetValueId)
                /\ nextSetValueId' = nextSetValueId + 1
                /\ Respond(c, [op |-> "addSetValue", status |-> 201,
                               setData |-> setData, value |-> value,
                               id |-> valueIdOf(nextSetValueId)])
           ELSE /\ Respond(c, [op |-> "addSetValue", status |-> 500,
                               setData |-> setData, value |-> value])
                /\ UNCHANGED <<setValues, nextSetValueId>>
    /\ UNCHANGED <<sets, nextSetId, notEngineVars>>

(* SetController.checkSetValue, up to prisma.set.findUnique; `after` keeps *)
(* the response that preceded the request                                  *)
CheckSetValueFind(c, name, value) ==
    /\ inflight[c] = Idle
    /\ LET setData == findSetByName(sets, name)
       IN  IF Len(value) < 1
           THEN Respond(c, [op |-> "checkSetValue", status |-> 500])
           ELSE IF setData.id = NoSet.id
           THEN Respond(c, [op |-> "checkSetValue", status |-> 404])
           ELSE Await(c, [op |-> "checkSetValue", setData |-> setData,
                          value |-> value, after |-> response])
    /\ UNCHANGED <<setVars, notEngineVars>>

(* SetController.checkSetValue, prisma.setValue.findFirst and the answer *)
CheckSetValueFindFirst(c) ==
    /\ inflight[c].op = "checkSetValue"
    /\ LET setData == inflight[c].setData
           value == inflight[c].value
       IN  Respond(c, [op |-> "checkSetValue", status |-> 200,
                       setData |-> setData, value |-> value,
                       exists |-> findFirstMatches(setValues, setData, value) # {},
                       after |-> inflight[c].after])
    /\ UNCHANGED <<setVars, notEngineVars>>

(* SetController.removeSetValue, up to prisma.set.findUnique *)
RemoveSetValueFind(c, name, valueId) ==
    /\ inflight[c] = Idle
    /\ LET setData == findSetByName(sets, name)
       IN  IF setData.id = NoSet.id
           THEN Respond(c, [op |-> "removeSetValue", status |-> 404,
                            code |-> "SET_NOT_FOUND"])
           ELSE Await(c, [op |-> "removeSetValue", setData |-> setData,
                          valueId |-> valueId])
    /\ UNCHANGED <<setVars, notEngineVars>>

(* SetController.removeSetValue, prisma.setValue.deleteMany and the answer; *)
(* `deleted` keeps the rows the call deleted, `before` the rows the Set    *)
(* held when it was made                                                    *)
RemoveSetValueDeleteMany(c) ==
    /\ inflight[c].op = "removeSetValue"
    /\ LET setData == inflight[c].setData
           valueId == inflight[c].valueId
           deleted == { v \in setValues : removeWhere(v, setData, valueId) }
       IN  /\ setValues' = setValues \ deleted
           /\ Respond(c, [op |-> "removeSetValue",
                          status |-> IF Cardinality(deleted) = 0 THEN 404 ELSE 200,
                          code |-> IF Cardinality(deleted) = 0
                                   THEN "VALUE_NOT_FOUND" ELSE "OK",
                          setData |-> setData, valueId |-> valueId,
                          deleted |-> deleted,
                          before |-> { v \in setValues : v.setId = setData.id }])
    /\ UNCHANGED <<sets, nextSetId, nextSetValueId, notEngineVars>>

(* SetController.updateSet, up to prisma.set.findFirst: name is read from  *)
(* req.body as it came                                                      *)
UpdateSetFind(c, set, name) ==
    /\ inflight[c] = Idle
    /\ LET setData == findSetByName(sets, set)
       IN  IF setData.id = NoSet.id
           THEN Respond(c, [op |-> "updateSet", status |-> 404])
           ELSE Await(c, [op |-> "updateSet", setData |-> setData,
                          name |-> name])
    /\ UNCHANGED <<setVars, notEngineVars>>

(* the data of prisma.set.update: ...(name && { name }) *)
updateData(row, name) ==
    IF name # <<>> THEN [row EXCEPT !.name = name] ELSE row

(* SetController.updateSet, prisma.set.update and the answer *)
UpdateSetUpdate(c) ==
    /\ inflight[c].op = "updateSet"
    /\ LET setData == inflight[c].setData
           name == inflight[c].name
           rows == { s \in sets : s.id = setData.id }
       IN  IF rows = {}
           THEN /\ Respond(c, [op |-> "updateSet", status |-> 500])
                /\ UNCHANGED sets
           ELSE IF name # <<>> /\ nameTaken(sets, name, setData.id)
           THEN /\ Respond(c, [op |-> "updateSet", status |-> 409])
                /\ UNCHANGED sets
           ELSE /\ sets' = (sets \ rows) \cup { updateData(s, name) : s \in rows }
                /\ Respond(c, [op |-> "updateSet", status |-> 200])
    /\ UNCHANGED <<setValues, nextSetId, nextSetValueId, notEngineVars>>

(* SetController.deleteSet, up to prisma.set.findFirst; `removed` keeps    *)
(* the rows the request has deleted so far                                  *)
DeleteSetFind(c, set) ==
    /\ inflight[c] = Idle
    /\ LET setData == findSetByName(sets, set)
       IN  IF setData.id = NoSet.id
           THEN Respond(c, [op |-> "deleteSet", status |-> 404])
           ELSE Await(c, [op |-> "deleteSet", pc |-> "deleteMany",
                          setData |-> setData, removed |-> {}])
    /\ UNCHANGED <<setVars, notEngineVars>>

(* SetController.deleteSet, prisma.setValue.deleteMany *)
DeleteSetDeleteMany(c) ==
    /\ inflight[c].op = "deleteSet"
    /\ inflight[c].pc = "deleteMany"
    /\ LET setData == inflight[c].setData
           deleted == { v \in setValues : v.setId = setData.id }
       IN  /\ setValues' = setValues \ deleted
           /\ Await(c, [inflight[c] EXCEPT !.pc = "delete", !.removed = deleted])
    /\ UNCHANGED <<sets, nextSetId, nextSetValueId, notEngineVars>>

(* SetController.deleteSet, prisma.set.delete and the answer *)
DeleteSetDelete(c) ==
    /\ inflight[c].op = "deleteSet"
    /\ inflight[c].pc = "delete"
    /\ LET setData == inflight[c].setData
       IN  IF \E s \in sets : s.id = setData.id
           THEN /\ sets' = { s \in sets : s.id # setData.id }
                /\ setValues' = valuesAfterSetDelete(setValues, setData.id)
                /\ Respond(c, [op |-> "deleteSet", status |-> 200,
                               setData |-> setData,
                               removed |-> inflight[c].removed])
           ELSE /\ Respond(c, [op |-> "deleteSet", status |-> 500,
                               setData |-> setData,
                               removed |-> inflight[c].removed])
                /\ UNCHANGED <<sets, setValues>>
    /\ UNCHANGED <<nextSetId, nextSetValueId, notEngineVars>>

(* SetController.deleteSet, the store rejects the awaited call: the catch  *)
(* answers 500 and nothing is undone                                        *)
DeleteSetThrows(c) ==
    /\ inflight[c].op = "deleteSet"
    /\ Respond(c, [op |-> "deleteSet", status |-> 500,
                   setData |-> inflight[c].setData,
                   removed |-> inflight[c].removed])
    /\ UNCHANGED <<setVars, notEngineVars>>

----------------------------------------------------------------------------
(* Set Engine: the bulk requests.  `failing` is the set of indexes at which *)
(* the store rejects the call of the request; `processed` keeps the indexes *)
(* in the order the loop took them.                                         *)

batchSize == 100

Min(a, b) == IF a < b THEN a ELSE b

(* values.slice(i, i + batchSize) *)
sliceShort(values, i, to) == SubSeq(values, i + 1, Min(to - 1, Len(values)))
slice(values, i, to) == SubSeq(values, i + 1, Min(to, Len(values)))

(* the loop variables after one pass of the inner loop *)
advance(l) ==
    IF l.j + 1 < Len(slice(l.values, l.i, l.i + batchSize))
    THEN [l EXCEPT !.j = l.j + 1]
    ELSE [l EXCEPT !.i = l.i + batchSize, !.j = 0]

(* for (let i = 0; i < values.length; i += batchSize) *)
loopDone(l) == ~(l.i < Len(l.values))

(* the next pass, or the answer once the outer loop ends *)
Continue(c, l, op, status) ==
    IF loopDone(l)
    THEN Respond(c, [op |-> op, status |-> status, values |-> l.values,
                     failing |-> l.failing, processed |-> l.processed,
                     setData |-> l.setData, data |-> l.results,
                     after |-> l.after])
    ELSE Await(c, l)

(* SetController.addSetValuesBulk, up to prisma.set.findUnique *)
AddSetValuesBulkFind(c, name, values, failing) ==
    /\ inflight[c] = Idle
    /\ LET setData == findSetByName(sets, name)
       IN  IF \/ Len(values) < 1
              \/ \E k \in 1..Len(values) : ~addSetValueSchema(values[k])
           THEN Respond(c, [op |-> "addSetValuesBulk", status |-> 400])
           ELSE IF setData.id = NoSet.id
           THEN Respond(c, [op |-> "addSetValuesBulk", status |-> 404])
           ELSE Await(c, [op |-> "addSetValuesBulk", setData |-> setData,
                          values |-> values, failing |-> failing,
                          i |-> 0, j |-> 0, processed |-> <<>>,
                          results |-> [created |-> 0, errors |-> <<>>,
                                       values |-> <<>>],
                          after |-> NoResponse])
    /\ UNCHANGED <<setVars, notEngineVars>>

(* SetController.addSetValuesBulk, one pass of the inner loop *)
AddSetValuesBulkItem(c) ==
    /\ inflight[c].op = "addSetValuesBulk"
    /\ LET l == inflight[c]
           batch == slice(l.values, l.i, l.i + batchSize)
           valueData == batch[l.j + 1]
           globalIndex == l.i + l.j
           thrown == \/ globalIndex \in l.failing
                     \/ createRejected(sets, setValues, l.setData, valueData)
           newValue == [id |-> valueIdOf(nextSetValueId),
                        setId |-> l.setData.id, value |-> valueData]
           results ==
               IF thrown
               THEN [l.results EXCEPT !.errors = Append(@, globalIndex)]
               ELSE [l.results EXCEPT !.created = @ + 1,
                                      !.values = Append(@, newValue)]
       IN  /\ IF thrown
              THEN UNCHANGED <<setValues, nextSetValueId>>
              ELSE /\ setValues' = setValueCreate(setValues, l.setData,
                                                  valueData, nextSetValueId)
                   /\ nextSetValueId' = nextSetValueId + 1
           /\ Continue(c, advance([l EXCEPT !.results = results,
                                     !.processed = Append(@, globalIndex)]),
                       "addSetValuesBulk", 201)
    /\ UNCHANGED <<sets, nextSetId, notEngineVars>>

(* SetController.checkSetValuesBulk, up to prisma.set.findUnique *)
CheckSetValuesBulkFind(c, name, values, failing) ==
    /\ inflight[c] = Idle
    /\ LET setData == findSetByName(sets, name)
       IN  IF \/ Len(values) < 1
              \/ \E k \in 1..Len(values) : ~addSetValueSchema(values[k])
           THEN Respond(c, [op |-> "checkSetValuesBulk", status |-> 400])
           ELSE IF setData.id = NoSet.id
           THEN Respond(c, [op |-> "checkSetValuesBulk", status |-> 404])
           ELSE Await(c, [op |-> "checkSetValuesBulk", setData |-> setData,
                          values |-> values, failing |-> failing,
                          i |-> 0, j |-> 0, processed |-> <<>>,
                          results |-> [found |-> 0, notFound |-> 0,
                                       errors |-> <<>>, checks |-> <<>>],
                          after |-> response])
    /\ UNCHANGED <<setVars, notEngineVars>>

(* SetController.checkSetValuesBulk, one pass of the inner loop *)
CheckSetValuesBulkItem(c) ==
    /\ inflight[c].op = "checkSetValuesBulk"
    /\ LET l == inflight[c]
           batch == slice(l.values, l.i, l.i + batchSize)
           value == batch[l.j + 1]
           globalIndex == l.i + l.j
           exists == findFirstMatches(setValues, l.setData, value) # {}
           results ==
               IF value = <<>> \/ globalIndex \in l.failing
               THEN [l.results EXCEPT !.errors = Append(@, globalIndex)]
               ELSE [l.results EXCEPT
                        !.found = IF exists THEN @ + 1 ELSE @,
                        !.notFound = IF exists THEN @ ELSE @ + 1,
                        !.checks = Append(@, [value |-> value,
                                              exists |-> exists])]
       IN  Continue(c, advance([l EXCEPT !.results = results,
                                 !.processed = Append(@, globalIndex)]),
                    "checkSetValuesBulk", 200)
    /\ UNCHANGED <<setVars, notEngineVars>>

(* LookupController.addLookupValuesBulk, up to prisma.lookup.findUnique *)
AddLookupValuesBulkFind(c, name, values, failing) ==
    /\ inflight[c] = Idle
    /\ IF \/ Len(values) < 1
          \/ \E k \in 1..Len(values) :
                ~addLookupValueSchema(values[k].left, values[k].right)
       THEN Respond(c, [op |-> "addLookupValuesBulk", status |-> 400])
       ELSE IF ~\E lookupData \in lookups : lookupData.name = name
       THEN Respond(c, [op |-> "addLookupValuesBulk", status |-> 404])
       ELSE Await(c, [op |-> "addLookupValuesBulk",
                      setData |-> CHOOSE lookupData \in lookups :
                                      lookupData.name = name,
                      values |-> values, failing |-> failing,
                      i |-> 0, j |-> 0, processed |-> <<>>,
                      results |-> [created |-> 0, updated |-> 0,
                                   skipped |-> 0, errors |-> <<>>,
                                   values |-> <<>>],
                      after |-> NoResponse])
    /\ UNCHANGED <<setVars, notEngineVars>>

(* LookupController.addLookupValuesBulk, one pass of the inner loop *)
AddLookupValuesBulkItem(c) ==
    /\ inflight[c].op = "addLookupValuesBulk"
    /\ LET l == inflight[c]
           batch == slice(l.values, l.i, l.i + batchSize)
           valueData == batch[l.j + 1]
           globalIndex == l.i + l.j
           thrown == globalIndex \in l.failing
           newValue == [id |-> nextValueId, lookupId |-> l.setData.id,
                        left |-> valueData.left, right |-> valueData.right]
           results ==
               IF thrown
               THEN [l.results EXCEPT !.errors = Append(@, globalIndex)]
               ELSE [l.results EXCEPT !.created = @ + 1,
                                      !.values = Append(@, newValue)]
       IN  /\ IF thrown
              THEN UNCHANGED <<lookupValues, nextValueId, lastRun>>
              ELSE /\ lookupValues' = lookupValues \cup {newValue}
                   /\ nextValueId' = nextValueId + 1
                   /\ lastRun' = [lastRun EXCEPT !.changed = TRUE]
           /\ Continue(c, advance([l EXCEPT !.results = results,
                                     !.processed = Append(@, globalIndex)]),
                       "addLookupValuesBulk", 201)
    /\ UNCHANGED <<lookups, warnings, nextWarningId>>
    /\ UNCHANGED <<jobPc, jobWarnings, jobRuns, jobRead, jobPrior>>
    /\ UNCHANGED <<setVars, observed, cronVars, serverVars>>

----------------------------------------------------------------------------
(* Specifications *)

Users == {"u1"}

(* the Lookup, left and right strings of the requests of Spec *)
RequestLookups == { "orders" }
RequestLefts == { <<"a">> }
RequestRights == { <<"a">>, <<"|">> }

(* no execution of the job, no cron job, the server listening *)
InitNoJob ==
    /\ jobPc = "idle"
    /\ jobWarnings = <<>>
    /\ jobRuns = 0
    /\ jobRead = {}
    /\ jobPrior = NoPrior
    /\ lastRun = NoRun
    /\ observed = NoObservation
    /\ cronJobs = [n \in JobNames |-> "absent"]
    /\ cronRunning = [n \in JobNames |-> 0]
    /\ nodeEnv = "production"
    /\ serverPc = "listening"

(* no Warning either *)
InitQuiet ==
    /\ warnings = {}
    /\ nextWarningId = 1
    /\ InitNoJob

InitIdle ==
    /\ lookups = SeedLookups
    /\ InitQuiet

(* the server answers requests while the detection job is run by hand *)
Init ==
    /\ InitIdle
    /\ InitEngineIdle
    /\ lookupValues = {}
    /\ nextValueId = 1

Next ==
    \/ \E l \in RequestLookups, left \in RequestLefts, right \in RequestRights :
          nextValueId <= MaxAdds /\ AddLookupValue(l, left, right)
    \/ \E l \in RequestLookups, id \in 1..MaxValues : RemoveLookupValue(l, id)
    \/ \E id \in 1..(nextWarningId - 1), u \in Users : ResolveWarning(id, u)
    \/ \E r \in {"absent", "true"} : ListWarnings("lookup", r)
    \/ JobExecute
    \/ JobFindMany
    \/ JobDeleteMany
    \/ JobCreateMany
    \/ JobThrow

Spec == Init /\ [][Next]_vars

(* the detection job over every content of the LookupValue table *)
RowKinds == { [lookupId |-> l.id, left |-> left, right |-> right] :
                l \in SeedLookups, left \in Strings, right \in Strings }

TableOf(f) == { [id |-> i, lookupId |-> f[i].lookupId,
                 left |-> f[i].left, right |-> f[i].right] : i \in DOMAIN f }

InitDetect ==
    /\ InitIdle
    /\ InitEngineIdle
    /\ \E n \in 0..MaxValues : \E f \in [1..n -> RowKinds] :
          /\ lookupValues = TableOf(f)
          /\ nextValueId = n + 1

NextDetect == JobExecute \/ JobFindMany \/ JobDeleteMany \/ JobCreateMany

SpecDetect == InitDetect /\ [][NextDetect]_vars

----------------------------------------------------------------------------
(* What the rows themselves say about duplicates *)

sameLeft(v, rows) ==
    \E u \in rows : u.id # v.id /\ u.lookupId = v.lookupId /\ u.left = v.left
sameRight(v, rows) ==
    \E u \in rows : u.id # v.id /\ u.lookupId = v.lookupId /\ u.right = v.right
samePair(v, rows) ==
    \E u \in rows : /\ u.id # v.id /\ u.lookupId = v.lookupId
                    /\ u.left = v.left /\ u.right = v.right

(* the positions of the computed array that report row v *)
reportsOf(v) == { i \in 1..Len(jobWarnings) : jobWarnings[i].itemId = v.id }
isHigh(w) == w.severity = "HIGH" /\ w.leftRightDuplicate
isMediumLeft(w) == w.severity = "MEDIUM" /\ w.leftDuplicate /\ ~w.rightDuplicate
isMediumRight(w) == w.severity = "MEDIUM" /\ w.rightDuplicate /\ ~w.leftDuplicate

----------------------------------------------------------------------------
(* Claims about the replacement of the stored Warnings (Spec) *)

(* C1: when an execution completes without error, the stored lookup        *)
(* Warnings are exactly the findings it computed from the rows it read:    *)
(* no row of an earlier run survives, resolved or not, all are unresolved, *)
(* and every row that was a duplicate when read has a Warning.             *)
FullReplaceOnCleanRun ==
    [][ (jobPc = "deleted" /\ jobPc' = "idle") =>
          LET stored == lookupWarningsStored(warnings')
          IN  /\ BagOfStored(stored) = BagOfSeq(computeWarnings(lookups, jobRead))
              /\ \A w \in stored : ~w.isResolved /\ w.id \notin jobPrior.atStart
              /\ \A v \in jobRead :
                    (sameLeft(v, jobRead) \/ sameRight(v, jobRead)) =>
                        \E w \in stored : w.itemId = v.id /\ ~w.isResolved
      ]_vars

(* a second run has replaced the rows of a first one *)
WitnessFullReplace ==
    /\ jobPc = "idle" /\ lastRun.clean /\ jobRuns = 2
    /\ warnings # {}
    /\ nextWarningId > Cardinality(warnings) + 1
    /\ \A w \in warnings : ~w.isResolved

(* C2: an execution that fails leaves the stored lookup Warnings as they   *)
(* were when it started.                                                    *)
FailedRunKeepsWarnings ==
    jobPc = "failed" =>
        { w.id : w \in lookupWarningsStored(warnings) } = jobPrior.atStart

(* C7: a clean run that follows a clean run, with no change of the Lookup  *)
(* data since the first one read it, leaves the same findings stored, each *)
(* as often as before, all unresolved.                                      *)
RerunIsIdempotent ==
    [][ (jobPc = "deleted" /\ jobPc' = "idle"
            /\ jobPrior.same /\ ~lastRun.changed) =>
          /\ BagOfStored(lookupWarningsStored(warnings')) = lastRun.stored
          /\ \A w \in lookupWarningsStored(warnings') : ~w.isResolved
      ]_vars

(* two clean runs over unchanged data that holds duplicates *)
WitnessRerun ==
    /\ jobPc = "idle" /\ jobRuns = 2 /\ lastRun.clean /\ ~lastRun.changed
    /\ nextWarningId = 2 * Cardinality(warnings) + 1
    /\ warnings # {}

(* C8: a list request answered while the job runs returns the matching    *)
(* rows of the complete prior set or of the complete new set.              *)
ReadsSeeCompleteSet ==
    observed.during = "deleted" =>
        LET seen == { finding(w) : w \in observed.seen }
            prior == { finding(w) : w \in
                        { x \in jobPrior.deleted :
                            x.isResolved = resolvedFilter(observed.resolved) } }
            new == IF resolvedFilter(observed.resolved) THEN {}
                   ELSE SeqToSet(jobWarnings)
        IN  seen = prior \/ seen = new

----------------------------------------------------------------------------
(* Claims about the computed findings (SpecDetect) *)

(* C3: a row with the same left and right as another row of its Lookup is  *)
(* reported exactly once, as HIGH leftRightDuplicate, and never as MEDIUM. *)
PairDuplicateReportedOnceHigh ==
    jobPc = "scanned" =>
        \A v \in jobRead :
            samePair(v, jobRead) =>
                /\ Cardinality(reportsOf(v)) = 1
                /\ \A i \in reportsOf(v) : isHigh(jobWarnings[i])

(* C4 as stated, for the rows it names (those that share a left with one  *)
(* row and a right with another, but both with none): no such row is the  *)
(* itemId of two Warnings of one run.                                      *)
NoRowReportedTwice ==
    jobPc = "scanned" =>
        \A v \in jobRead :
            ~samePair(v, jobRead) => Cardinality(reportsOf(v)) <= 1

(* C4 amended: no row is reported twice with the same flags, and a row     *)
(* reported HIGH has no other Warning; a row has at most one leftDuplicate *)
(* and one rightDuplicate Warning.                                          *)
NoRowReportedTwiceAlike ==
    jobPc = "scanned" =>
        \A i, j \in 1..Len(jobWarnings) :
            (i # j /\ jobWarnings[i].itemId = jobWarnings[j].itemId) =>
                /\ jobWarnings[i] # jobWarnings[j]
                /\ ~isHigh(jobWarnings[i]) /\ ~isHigh(jobWarnings[j])

(* a row shares its left with one row and its right with another, and has *)
(* been reported; another table holds a HIGH row beside a left-duplicate   *)
WitnessSharedBothSides ==
    /\ jobPc = "scanned"
    /\ \E v \in jobRead :
          /\ sameLeft(v, jobRead) /\ sameRight(v, jobRead) /\ ~samePair(v, jobRead)
          /\ Cardinality(reportsOf(v)) = 2

(* C5: in a Lookup where no two rows share both left and right, the MEDIUM *)
(* leftDuplicate Warnings are those of the rows whose left another row of  *)
(* the same Lookup has, likewise for right, and there is no HIGH Warning.  *)
SingleSideDuplicatesExact ==
    jobPc = "scanned" =>
        \A l \in lookups :
            LET rows == { v \in jobRead : v.lookupId = l.id }
            IN  (\A v \in rows : ~samePair(v, rows)) =>
                    \A v \in rows :
                        /\ (\E i \in reportsOf(v) : isMediumLeft(jobWarnings[i]))
                              <=> sameLeft(v, jobRead)
                        /\ (\E i \in reportsOf(v) : isMediumRight(jobWarnings[i]))
                              <=> sameRight(v, jobRead)
                        /\ \A i \in reportsOf(v) : ~isHigh(jobWarnings[i])

(* C6: a row is reported HIGH leftRightDuplicate exactly when another row  *)
(* of the same Lookup has the same left and the same right.                *)
HighIffSamePair ==
    jobPc = "scanned" =>
        \A v \in jobRead :
            (\E i \in reportsOf(v) : isHigh(jobWarnings[i]))
                <=> samePair(v, jobRead)

----------------------------------------------------------------------------
(* CronManager *)

(* job.stop() of stopJob, when the name is registered *)
stopped(jobs, name) ==
    IF jobs[name] = "absent" THEN jobs ELSE [jobs EXCEPT ![name] = "stopped"]

(* CronManager.registerJob; `valid` is cron.validate(schedule) *)
RegisterJob(name, valid, scheduled, runOnInit) ==
    /\ valid
    /\ cronJobs' = [stopped(cronJobs, name) EXCEPT
                       ![name] = IF scheduled THEN "scheduled" ELSE "stopped"]
    /\ IF runOnInit /\ cronRunning[name] < MaxOverlap
       THEN cronRunning' = [cronRunning EXCEPT ![name] = @ + 1]
       ELSE UNCHANGED cronRunning
    /\ UNCHANGED <<storeVars, jobVars, observed, serverVars, engineVars>>

(* CronManager.startJob *)
StartJob(name) ==
    /\ cronJobs[name] # "absent"
    /\ cronJobs' = [cronJobs EXCEPT ![name] = "scheduled"]
    /\ UNCHANGED <<cronRunning, storeVars, jobVars, observed, serverVars, engineVars>>

(* CronManager.stopJob *)
StopJob(name) ==
    /\ cronJobs[name] # "absent"
    /\ cronJobs' = stopped(cronJobs, name)
    /\ UNCHANGED <<cronRunning, storeVars, jobVars, observed, serverVars, engineVars>>

(* CronManager.removeJob *)
RemoveJob(name) ==
    /\ cronJobs[name] # "absent"
    /\ cronJobs' = [cronJobs EXCEPT ![name] = "absent"]
    /\ UNCHANGED <<cronRunning, storeVars, jobVars, observed, serverVars, engineVars>>

(* CronManager.startAll *)
StartAll ==
    /\ cronJobs' = [n \in JobNames |->
                       IF cronJobs[n] = "absent" THEN "absent" ELSE "scheduled"]
    /\ UNCHANGED <<cronRunning, storeVars, jobVars, observed, serverVars, engineVars>>

(* CronManager.stopAll *)
stopAll(jobs) ==
    [n \in JobNames |-> IF jobs[n] = "absent" THEN "absent" ELSE "stopped"]

StopAll ==
    /\ cronJobs' = stopAll(cronJobs)
    /\ UNCHANGED <<cronRunning, storeVars, jobVars, observed, serverVars, engineVars>>

(* whether a schedule tick may start wrappedTask: the task is scheduled;  *)
(* wrappedTask keeps no record of an execution in flight                   *)
mayFire(jobs, running, name) == jobs[name] = "scheduled"

(* the schedule of a job matches the clock: wrappedTask is called and     *)
(* runs up to `await task()`                                               *)
CronTick(name) ==
    /\ mayFire(cronJobs, cronRunning, name)
    /\ cronRunning[name] < MaxOverlap
    /\ cronRunning' = [cronRunning EXCEPT ![name] = @ + 1]
    /\ UNCHANGED <<cronJobs, storeVars, jobVars, observed, serverVars, engineVars>>

(* task() settles: wrappedTask logs the completion, or the error *)
TaskSettles(name) ==
    /\ cronRunning[name] > 0
    /\ cronRunning' = [cronRunning EXCEPT ![name] = @ - 1]
    /\ UNCHANGED <<cronJobs, storeVars, jobVars, observed, serverVars, engineVars>>

InitCron ==
    /\ InitIdle
    /\ InitEngineIdle
    /\ lookupValues = {}
    /\ nextValueId = 1

NextCron ==
    \/ \E n \in JobNames, valid \in BOOLEAN, scheduled \in BOOLEAN,
          runOnInit \in BOOLEAN : RegisterJob(n, valid, scheduled, runOnInit)
    \/ \E n \in JobNames : StartJob(n)
    \/ \E n \in JobNames : StopJob(n)
    \/ \E n \in JobNames : RemoveJob(n)
    \/ StartAll
    \/ StopAll
    \/ \E n \in JobNames : CronTick(n)
    \/ \E n \in JobNames : TaskSettles(n)

SpecCron == InitCron /\ [][NextCron]_vars

(* C9: no two executions of the task of one registered job are in flight  *)
(* at the same time.                                                        *)
NoOverlappingExecutions ==
    \A n \in JobNames : cronRunning[n] <= 1

----------------------------------------------------------------------------
(* The server process: startServer, initializeCronJobs, gracefulShutdown *)

isTest == nodeEnv = "test"

(* index.ts: `if (!isTest()) startServer()`; connectDatabase() answers *)
ConnectDatabase ==
    /\ serverPc = "boot" /\ ~isTest
    /\ serverPc' = "connected"
    /\ UNCHANGED <<nodeEnv, storeVars, jobVars, observed, cronVars, engineVars>>

(* seed() answers *)
Seed ==
    /\ serverPc = "connected"
    /\ serverPc' = "seeded"
    /\ UNCHANGED <<nodeEnv, storeVars, jobVars, observed, cronVars, engineVars>>

(* connectDatabase() or seed() rejects: process.exit(1) *)
StartFails ==
    /\ serverPc \in {"boot", "connected"} /\ ~isTest
    /\ serverPc' = "exited"
    /\ UNCHANGED <<nodeEnv, storeVars, jobVars, observed, cronVars, engineVars>>

(* initializeCronJobs(): it returns at once under test, and otherwise     *)
(* only logs, the registerJob and startAll calls being commented out;     *)
(* then app.listen                                                         *)
initializeCronJobs(jobs) == jobs

InitializeCronJobsAndListen ==
    /\ serverPc = "seeded"
    /\ cronJobs' = IF isTest THEN cronJobs ELSE initializeCronJobs(cronJobs)
    /\ serverPc' = "listening"
    /\ UNCHANGED <<nodeEnv, cronRunning, storeVars, jobVars, observed, engineVars>>

(* SIGTERM or SIGINT: gracefulShutdown stops the cron jobs, disconnects   *)
(* and exits                                                               *)
GracefulShutdown ==
    /\ serverPc \in {"boot", "connected", "seeded", "listening"}
    /\ cronJobs' = stopAll(cronJobs)
    /\ serverPc' = "exited"
    /\ UNCHANGED <<nodeEnv, cronRunning, storeVars, jobVars, observed, engineVars>>

NodeEnvs == {"development", "production", "test"}

InitServer ==
    /\ lookups = SeedLookups
    /\ lookupValues = {}
    /\ nextValueId = 1
    /\ warnings = {}
    /\ nextWarningId = 1
    /\ jobPc = "idle"
    /\ jobWarnings = <<>>
    /\ jobRuns = 0
    /\ jobRead = {}
    /\ jobPrior = NoPrior
    /\ lastRun = NoRun
    /\ observed = NoObservation
    /\ cronJobs = [n \in JobNames |-> "absent"]
    /\ cronRunning = [n \in JobNames |-> 0]
    /\ nodeEnv \in NodeEnvs
    /\ serverPc = "boot"
    /\ InitEngineIdle

NextServer ==
    \/ ConnectDatabase
    \/ Seed
    \/ StartFails
    \/ InitializeCronJobsAndListen
    \/ GracefulShutdown
    \/ \E l \in SeedLookups, left \in RequestLefts, right \in RequestRights :
          /\ serverPc = "listening"
          /\ nextValueId <= MaxAdds
          /\ AddLookupValue(l.name, left, right)
    \/ \E l \in RequestLookups, id \in 1..MaxValues :
          serverPc = "listening" /\ RemoveLookupValue(l, id)
    \/ \E r \in {"absent", "true"} :
          serverPc = "listening" /\ ListWarnings("lookup", r)

SpecServer == InitServer /\ [][NextServer]_vars

(* C10: once the server listens outside the test environment, the         *)
(* warning-detection job is registered with the cron manager and started. *)
DetectionJobScheduledOnceListening ==
    (serverPc = "listening" /\ ~isTest) =>
        cronJobs["warning-detection"] = "scheduled"

----------------------------------------------------------------------------
(* The bulk requests, one after the other                                  *)

orders == <<"o", "r", "d", "e", "r", "s">>
customers == <<"c", "u", "s", "t", "o", "m", "e", "r", "s">>

(* the Sets of the seed *)
SeedSets == { [id |-> 1, name |-> orders,
               allowDuplicates |-> FALSE, strictChecking |-> TRUE],
              [id |-> 2, name |-> customers,
               allowDuplicates |-> FALSE, strictChecking |-> TRUE] }

(* lengths of the values array: within one batch, a whole batch, and more  *)
BulkSizes == { 1, 2, batchSize, batchSize + 1, 2 * batchSize + 1 }

(* indexes at which the store may reject a call *)
FailPoints == { 0, 1, batchSize }

(* n pairwise distinct values, and n times the same value *)
distinctValues(n) == [k \in 1..n |-> <<"v">> \o decimal(k)]
sameValues(n) == [k \in 1..n |-> <<"v">>]
pairValues(n) == [k \in 1..n |-> [left |-> <<"a">>, right |-> decimal(k)]]

indexes(n) == [k \in 1..n |-> k - 1]

InitBulk ==
    /\ InitIdle
    /\ lookupValues = {}
    /\ nextValueId = 1
    /\ sets = SeedSets
    /\ setValues = {}
    /\ nextSetId = 3
    /\ nextSetValueId = 1
    /\ inflight = [c \in Clients |-> Idle]
    /\ response = NoResponse

NextBulk ==
    \/ \E n \in BulkSizes, failing \in SUBSET FailPoints,
          name \in { orders, <<"x">> } :
          /\ response = NoResponse
          /\ \/ AddSetValuesBulkFind("c1", name, distinctValues(n), failing)
             \/ AddSetValuesBulkFind("c1", name, sameValues(n), failing)
    \/ AddSetValuesBulkItem("c1")
    \/ \E failing \in { {}, {1} }, extra \in { <<>>, << <<"w">> >> } :
          /\ response.op = "addSetValuesBulk"
          /\ response.status = 201
          /\ CheckSetValuesBulkFind("c1", response.setData.name,
                                    response.values \o extra, failing)
    \/ CheckSetValuesBulkItem("c1")
    \/ \E n \in BulkSizes, failing \in SUBSET FailPoints :
          /\ response = NoResponse
          /\ AddLookupValuesBulkFind("c1", "orders", pairValues(n), failing)
    \/ AddLookupValuesBulkItem("c1")

SpecBulk == InitBulk /\ [][NextBulk]_vars

ascending(s) == \A i, j \in 1..Len(s) : i < j => s[i] < s[j]

bulkAdded == response.op \in { "addSetValuesBulk", "addLookupValuesBulk" }
                 /\ response.status = 201

pairwiseDistinct(s) == \A i, j \in 1..Len(s) : s[i] = s[j] => i = j

noStoreFailure(r) == \A k \in 1..Len(r.values) : (k - 1) \notin r.failing

(* C12: a bulk check answers found + notFound + |errors| = the number of   *)
(* values asked; a bulk add of n pairwise distinct values that met no      *)
(* store failure answered created = n and no errors, and the bulk check of *)
(* the same values that follows it answers found = n, notFound = 0 and one *)
(* check entry per value, in input order.                                  *)
BulkCheckFindsBulkAdded ==
    (response.op = "checkSetValuesBulk" /\ response.status = 200) =>
        LET r == response.data
            add == response.after
            n == Len(add.values)
        IN  /\ r.found + r.notFound + Len(r.errors) = Len(response.values)
            /\ ( /\ add.op = "addSetValuesBulk"
                 /\ add.status = 201
                 /\ pairwiseDistinct(add.values)
                 /\ noStoreFailure(add) ) =>
                   /\ add.data.created = n
                   /\ add.data.errors = <<>>
                   /\ ( response.values = add.values /\ noStoreFailure(response) ) =>
                         /\ r.found = n
                         /\ r.notFound = 0
                         /\ r.checks = [k \in 1..n |->
                                          [value |-> add.values[k],
                                           exists |-> TRUE]]

(* 101 distinct values added in two batches, then all of them found *)
WitnessBulkCheckAfterAdd ==
    /\ response.op = "checkSetValuesBulk"
    /\ response.status = 200
    /\ response.after.op = "addSetValuesBulk"
    /\ response.values = distinctValues(batchSize + 1)
    /\ response.after.values = response.values
    /\ response.data.found = batchSize + 1

----------------------------------------------------------------------------
(* Values added to, removed from and looked for in the Sets, one request   *)
(* after the other                                                          *)

(* the strings of the requests: a value, and a string that is also the id  *)
(* of a row                                                                 *)
SetStrings == { <<"x">>, valueIdOf(1) }

(* the keys of removeValue: the strings, and the ids of the rows *)
RemoveKeys == SetStrings \cup { valueIdOf(k) : k \in 1..MaxSetValues }

InitValues ==
    /\ InitIdle
    /\ lookupValues = {}
    /\ nextValueId = 1
    /\ sets = SeedSets
    /\ setValues = {}
    /\ nextSetId = 3
    /\ nextSetValueId = 1
    /\ inflight = [c \in Clients |-> Idle]
    /\ response = NoResponse

NextValues ==
    \/ \E s \in SeedSets, value \in SetStrings :
          /\ nextSetValueId <= MaxSetValues
          /\ AddSetValueFind("c1", s.name, value)
    \/ AddSetValueCreate("c1")
    \/ \E s \in SeedSets, key \in RemoveKeys :
          RemoveSetValueFind("c1", s.name, key)
    \/ RemoveSetValueDeleteMany("c1")
    \/ \E value \in SetStrings :
          /\ response.op = "removeSetValue"
          /\ response.status = 200
          /\ CheckSetValueFind("c1", response.setData.name, value)
    \/ CheckSetValueFindFirst("c1")

SpecValues == InitValues /\ [][NextValues]_vars

removeAnswered == response.op = "removeSetValue" /\ response.code # "SET_NOT_FOUND"

(* C13: removeValue(setName, key) deletes no SetValue of another Set, and  *)
(* when no SetValue of the named Set has id = key or value = key it        *)
(* answers NotFound and deletes nothing.                                   *)
RemoveValueStaysInItsSet ==
    removeAnswered =>
        /\ \A v \in response.deleted : v.setId = response.setData.id
        /\ (\A v \in response.before :
                v.id # response.valueId /\ v.value # response.valueId)
              => (response.status = 404 /\ response.deleted = {})

(* the row a removeValue by id removed from the Set that is then checked *)
removedById(check) ==
    { row \in check.after.deleted :
        /\ row.id = check.after.valueId
        /\ row.setId = check.setData.id
        /\ row.value = check.value }

checkedAfterRemove ==
    /\ response.op = "checkSetValue"
    /\ response.status = 200
    /\ response.after.op = "removeSetValue"
    /\ response.after.status = 200
    /\ response.after.setData.id = response.setData.id

(* C14: after a successful removeValue(set, id) of a SetValue with value   *)
(* v, checkValue(set, v) answers exists = false and every other SetValue   *)
(* of the Set is still there.                                              *)
RemoveThenCheckAbsent ==
    checkedAfterRemove =>
        \A row \in removedById(response) :
            /\ ~response.exists
            /\ response.after.before \ {row} \subseteq setValues

(* C14 as the code has it: the same, for a Set in which no other SetValue  *)
(* has the value v or a value equal to the id.                             *)
RemoveThenCheckAbsentIfSingle ==
    checkedAfterRemove =>
        \A row \in removedById(response) :
            (\A o \in response.after.before \ {row} :
                o.value # row.value /\ o.value # row.id)
            => /\ ~response.exists
               /\ response.after.before \ {row} \subseteq setValues

(* one of two rows of a Set removed by its id, its value then looked for *)
WitnessRemoveThenCheck ==
    /\ checkedAfterRemove
    /\ removedById(response) # {}
    /\ ~response.exists
    /\ Cardinality(response.after.before) = 2
    /\ Cardinality(response.after.deleted) = 1

----------------------------------------------------------------------------
(* Single values written to Sets and Lookups, whatever their flags         *)

LookupFlags == [ allowLeftDups : BOOLEAN, allowRightDups : BOOLEAN,
                 allowLeftRightDups : BOOLEAN, strictChecking : BOOLEAN ]
SetFlags == [ allowDuplicates : BOOLEAN, strictChecking : BOOLEAN ]

(* a Lookup row and a Set row with their flags *)
lookupRow(l, f) ==
    [id |-> l.id, name |-> l.name, allowLeftDups |-> f.allowLeftDups,
     allowRightDups |-> f.allowRightDups,
     allowLeftRightDups |-> f.allowLeftRightDups,
     strictChecking |-> f.strictChecking]
setRow(s, f) ==
    [id |-> s.id, name |-> s.name, allowDuplicates |-> f.allowDuplicates,
     strictChecking |-> f.strictChecking]

InitWrite ==
    /\ InitQuiet
    /\ \E f \in LookupFlags : lookups = { lookupRow(l, f) : l \in SeedLookups }
    /\ lookupValues = {}
    /\ nextValueId = 1
    /\ \E f \in SetFlags : sets = { setRow(s, f) : s \in SeedSets }
    /\ setValues = {}
    /\ nextSetId = 3
    /\ nextSetValueId = 1
    /\ inflight = [c \in Clients |-> Idle]
    /\ response = NoResponse

NextWrite ==
    \/ \E name \in { orders, <<"x">> } :
          /\ nextSetValueId <= MaxSetValues
          /\ AddSetValueFind("c1", name, <<"x">>)
    \/ AddSetValueCreate("c1")
    \/ \E l \in SeedLookups :
          /\ nextValueId <= MaxAdds
          /\ AddLookupValue(l.name, <<"a">>, <<"a">>)
    \/ \E l \in RequestLookups, id \in 1..MaxValues : RemoveLookupValue(l, id)

SpecWrite == InitWrite /\ [][NextWrite]_vars

(* C15: removeValue(lookupName, valueId) with the id of a row of another  *)
(* Lookup answers NotFound and deletes no LookupValue.                     *)
RemoveLookupValueStaysInItsLookup ==
    \A l \in lookups : \A v \in lookupValues :
        v.lookupId # l.id =>
            LET answer == removeLookupValue(lookups, lookupValues, l.name, v.id)
            IN  answer.status = 404 /\ answer.rows = lookupValues

(* addSetValue answers a request whose Set is there when the row is written *)
addSetValueWrites(c) ==
    /\ inflight[c].op = "addSetValue"
    /\ inflight'[c] = Idle
    /\ foreignKeyHolds(sets, inflight[c].setData.id)

----------------------------------------------------------------------------
(* The Set Engine under two clients whose requests interleave              *)

(* the names of the requests: two that createSetSchema accepts and one it  *)
(* rejects                                                                  *)
SetNames == { <<"a">>, <<"b">> }
BadName == <<"a", " ">>

InitSet ==
    /\ InitIdle
    /\ lookupValues = {}
    /\ nextValueId = 1
    /\ sets = { [id |-> 1, name |-> <<"a">>, allowDuplicates |-> TRUE,
                 strictChecking |-> FALSE] }
    /\ setValues = {}
    /\ nextSetId = 2
    /\ nextSetValueId = 1
    /\ inflight = [c \in Clients |-> Idle]
    /\ response = NoResponse

NextSet ==
    \E c \in Clients :
        \/ \E set \in SetNames : DeleteSetFind(c, set)
        \/ DeleteSetDeleteMany(c)
        \/ DeleteSetDelete(c)
        \/ DeleteSetThrows(c)
        \/ \E set \in SetNames :
              /\ nextSetValueId <= MaxSetValues
              /\ AddSetValueFind(c, set, <<"x">>)
        \/ AddSetValueCreate(c)
        \/ /\ nextSetValueId <= MaxSetValues
           /\ AddSetValuesBulkFind(c, <<"a">>, distinctValues(2), {})
        \/ AddSetValuesBulkItem(c)

SpecSet == InitSet /\ [][NextSet]_vars

DeleteSetAllOrNothing ==
    ( /\ response.op = "deleteSet"
      /\ response.status = 500
      /\ \E s \in sets : s.id = response.setData.id )
    => response.removed = {}

----------------------------------------------------------------------------
(* Sets created and renamed by two clients whose requests interleave       *)

NextNames ==
    \E c \in Clients :
        \/ \E name \in SetNames \cup {BadName} :
              nextSetId <= MaxSets /\ CreateSet(c, name, TRUE, FALSE)
        \/ \E set \in SetNames \cup {BadName}, name \in { <<"b">>, BadName, <<>> } :
              UpdateSetFind(c, set, name)
        \/ UpdateSetUpdate(c)

SpecNames == InitSet /\ [][NextNames]_vars

(* C18: createSet with the name of a Set that is there answers 409 and     *)
(* changes no Set and no SetValue, and no two Sets have the same name.     *)
SetNamesStayUnique ==
    /\ [](\A s, t \in sets : s.name = t.name => s = t)
    /\ [][ \A c \in Clients, name \in SetNames \cup {BadName} :
              ( /\ CreateSet(c, name, TRUE, FALSE)
                /\ \E s \in sets : s.name = name )
              => /\ response'.status = 409
                 /\ sets' = sets
                 /\ setValues' = setValues ]_vars

(* C19: the name of every Set is one createSetSchema accepts.              *)
SetNamesAreValid == \A s \in sets : createSetSchema(s.name)

----------------------------------------------------------------------------
(* Lookup Engine: LookupController.searchLookupValues                      *)

MaxSearchRows == 3  \* LookupValue rows in the table that is searched

(* the characters of the searched strings and their lower-case forms *)
toLowerCase(ch) ==
    CASE ch = "A" -> "a"
      [] ch = "B" -> "b"
      [] OTHER -> ch

foldCase(s) == [i \in 1..Len(s) |-> toLowerCase(s[i])]

(* { contains: sub }: sub occurs in s as a run of adjacent characters *)
contains(s, sub) ==
    \E i \in 0..(Len(s) - Len(sub)) : SubSeq(s, i + 1, i + Len(sub)) = sub

(* { contains: sub, mode: 'insensitive' } *)
containsSensitive(s, sub) == contains(s, sub)
containsInsensitive(s, sub) == contains(foldCase(s), foldCase(sub))

(* `if (left)`, `if (right)`, `if (search)`: the parameter is in the query *)
(* and is not the empty string                                             *)
truthy(query, key) == key \in DOMAIN query /\ query[key] # <<>>

(* whereClause of searchLookupValues *)
searchWhere(v, lookupData, query) ==
    /\ v.lookupId = lookupData.id
    /\ (truthy(query, "left") => v.left = query.left)
    /\ (truthy(query, "right") => v.right = query.right)
    /\ (truthy(query, "search") =>
           \/ containsInsensitive(v.left, query.search)
           \/ containsInsensitive(v.right, query.search))

(* orderBy: { createdAt: 'desc' }: the ids of the model count the inserts, *)
(* so the row created later has the larger id                              *)
RECURSIVE orderByCreatedAtDesc(_)
orderByCreatedAtDesc(S) ==
    IF S = {} THEN <<>>
    ELSE LET m == CHOOSE x \in S : \A y \in S : x.id >= y.id
         IN  <<m>> \o orderByCreatedAtDesc(S \ {m})

(* LookupController.searchLookupValues as a function of the tables *)
searchLookupValues(ls, rows, name, query) ==
    IF ~\E lookupData \in ls : lookupData.name = name
    THEN [status |-> 404, code |-> "LOOKUP_NOT_FOUND", data |-> <<>>]
    ELSE LET lookupData == CHOOSE l \in ls : l.name = name
         IN  [status |-> 200, code |-> "OK",
              data |-> orderByCreatedAtDesc(
                          { v \in rows : searchWhere(v, lookupData, query) })]

(* LookupController.searchLookupValues: the request is answered *)
SearchLookupValues(name, query) ==
    /\ response' = [op |-> "searchLookupValues", name |-> name, query |-> query,
                    answer |-> searchLookupValues(lookups, lookupValues,
                                                  name, query),
                    table |-> lookupValues]
    /\ UNCHANGED <<setVars, inflight, notEngineVars>>

(* the Lookups asked for and the (left, right) pairs stored in them; the   *)
(* table is filled before the first search                                 *)
SearchLookups == { "orders", "customers" }
SearchPairs == { <<<<"a">>, <<"a">>>>, <<<<"A", "b">>, <<"a">>>>,
                 <<<<"a">>, <<"A", "b">>>> }

(* req.query after searchLookupValuesSchema: limit is always there, by its *)
(* default, and is not used                                                *)
Queries ==
    { [limit |-> 50],
      [limit |-> 50, left |-> <<"a">>],
      [limit |-> 50, left |-> <<>>],
      [limit |-> 50, right |-> <<"A", "b">>],
      [limit |-> 50, right |-> <<"a", "b">>],
      [limit |-> 50, search |-> <<"a", "B">>],
      [limit |-> 50, search |-> <<>>],
      [limit |-> 1, left |-> <<"a">>, search |-> <<"B">>],
      [limit |-> 50, left |-> <<"a">>, right |-> <<"A", "b">>,
       search |-> <<"a", "B">>] }

InitSearch ==
    /\ InitIdle
    /\ InitEngineIdle
    /\ lookupValues = {}
    /\ nextValueId = 1

NextSearch ==
    \/ \E l \in SearchLookups, pair \in SearchPairs :
          /\ response = NoResponse
          /\ nextValueId <= MaxSearchRows
          /\ AddLookupValue(l, pair[1], pair[2])
    \/ \E name \in SearchLookups \cup {"missing"}, query \in Queries :
          SearchLookupValues(name, query)

SpecSearch == InitSearch /\ [][NextSearch]_vars

searchAnswered == response.op = "searchLookupValues"

given(query, key) == key \in DOMAIN query

(* the rows of the table that belong to the Lookup called name *)
rowsOfLookup(table, name) ==
    { v \in table : \E l \in lookups : l.name = name /\ l.id = v.lookupId }

(* s and t are the same string up to the case of their letters *)
sameUpToCase(s, t) ==
    /\ Len(s) = Len(t)
    /\ \A i \in 1..Len(s) : toLowerCase(s[i]) = toLowerCase(t[i])

occursIn(sub, s) ==
    \E from \in 1..(Len(s) + 1), to \in 0..Len(s) :
        /\ to - from + 1 = Len(sub)
        /\ sameUpToCase(SubSeq(s, from, to), sub)

newestFirst(data) ==
    \A i, j \in 1..Len(data) : i < j => data[i].id > data[j].id

----------------------------------------------------------------------------
(* Warning Ledger: WarningController.  A handler is one action per awaited *)
(* store call, as in the Set Engine.                                       *)

(* z.string().cuid(): a "c", then eight or more characters that are       *)
(* neither white space nor a hyphen                                        *)
cuidSchema(id) ==
    /\ Len(id) >= 9
    /\ id[1] \in {"c", "C"}
    /\ \A i \in 1..Len(id) : id[i] \notin {" ", "-"}

(* the id the store gives the k-th Warning of the ledger *)
warningIdOf(k) == <<"c", "k", "0", "0", "0", "0", "0", "0">> \o decimal(k)

(* req.user?.id || null: c1 is signed in, c2 is not *)
userOf(c) == IF c = "c1" THEN "u1" ELSE "null"

(* new Date(): later than every date the ledger holds; 0 stands for null *)
newDate(ws) ==
    LET dates == {0} \cup { w.resolvedAt : w \in ws }
    IN  1 + CHOOSE d \in dates : \A e \in dates : e <= d

(* data: { isResolved: true, resolvedAt: new Date(), resolvedBy } *)
resolveData(w, at, by) ==
    [w EXCEPT !.isResolved = TRUE, !.resolvedAt = at, !.resolvedBy = by]

(* prisma.warning.update({ where: { id }, data }) *)
warningUpdateAll(ws, id, at, by) == { resolveData(w, at, by) : w \in ws }
warningUpdate(ws, id, at, by) ==
    { IF w.id = id THEN resolveData(w, at, by) ELSE w : w \in ws }

(* prisma.warning.updateMany({ where: { id: { in }, isResolved: false } }) *)
updateManyWhereAnyState(w, warningIds) == w.id \in SeqToSet(warningIds)
updateManyWhere(w, warningIds) ==
    w.id \in SeqToSet(warningIds) /\ ~w.isResolved

warningUpdateMany(ws, warningIds, at, by) ==
    { IF updateManyWhere(w, warningIds) THEN resolveData(w, at, by) ELSE w
      : w \in ws }

(* prisma.warning.deleteMany({ where: { isResolved: true } }) *)
clearWhereAll(w) == TRUE
clearWhere(w) == w.isResolved

ledgerFrame == <<lookups, lookupValues, nextValueId, nextWarningId,
                 jobVars, observed, cronVars, serverVars, setVars>>

(* WarningController.resolveWarning up to prisma.warning.findUnique *)
ResolveWarningFind(c, id) ==
    /\ inflight[c] = Idle
    /\ IF ~cuidSchema(id)
       THEN Respond(c, [op |-> "resolveWarning", status |-> 400,
                        code |-> "VALIDATION_ERROR", id |-> id])
       ELSE IF ~\E warning \in warnings : warning.id = id
       THEN Respond(c, [op |-> "resolveWarning", status |-> 404,
                        code |-> "WARNING_NOT_FOUND", id |-> id])
       ELSE IF \E warning \in warnings : warning.id = id /\ warning.isResolved
       THEN Respond(c, [op |-> "resolveWarning", status |-> 400,
                        code |-> "WARNING_ALREADY_RESOLVED", id |-> id])
       ELSE Await(c, [op |-> "resolveWarning", id |-> id])
    /\ UNCHANGED <<warnings, ledgerFrame>>

(* prisma.warning.update answers, or rejects with P2025 when the row has   *)
(* gone, which the handler's catch answers 500                             *)
ResolveWarningUpdate(c) ==
    /\ inflight[c].op = "resolveWarning"
    /\ LET id == inflight[c].id
       IN  IF \E warning \in warnings : warning.id = id
           THEN /\ warnings' = warningUpdate(warnings, id, newDate(warnings),
                                             userOf(c))
                /\ Respond(c, [op |-> "resolveWarning", status |-> 200,
                               code |-> "OK", id |-> id])
           ELSE /\ warnings' = warnings
                /\ Respond(c, [op |-> "resolveWarning", status |-> 500,
                               code |-> "INTERNAL_ERROR", id |-> id])
    /\ UNCHANGED ledgerFrame

(* WarningController.resolveWarningsBulk: req.body is an array of ids or   *)
(* something else                                                          *)
ResolveWarningsBulk(c, body) ==
    /\ inflight[c] = Idle
    /\ IF ~body.isArray
       THEN /\ warnings' = warnings
            /\ Respond(c, [op |-> "resolveWarningsBulk", status |-> 400,
                           code |-> "INVALID_BODY", resolvedCount |-> 0,
                           warningIds |-> <<>>])
       ELSE LET warningIds == body.items
                count == Cardinality({ w \in warnings :
                                         updateManyWhere(w, warningIds) })
            IN  /\ warnings' = warningUpdateMany(warnings, warningIds,
                                                 newDate(warnings), userOf(c))
                /\ Respond(c, [op |-> "resolveWarningsBulk", status |-> 200,
                               code |-> "OK", resolvedCount |-> count,
                               warningIds |-> warningIds])
    /\ UNCHANGED ledgerFrame

(* WarningController.clearResolvedWarnings *)
ClearResolvedWarnings(c) ==
    /\ inflight[c] = Idle
    /\ warnings' = { w \in warnings : ~clearWhere(w) }
    /\ Respond(c, [op |-> "clearResolvedWarnings", status |-> 200,
                   code |-> "OK",
                   deletedCount |-> Cardinality({ w \in warnings :
                                                    clearWhere(w) })])
    /\ UNCHANGED ledgerFrame

(* WarningController.deleteWarning up to prisma.warning.findUnique *)
DeleteWarningFind(c, id) ==
    /\ inflight[c] = Idle
    /\ IF ~cuidSchema(id)
       THEN Respond(c, [op |-> "deleteWarning", status |-> 400,
                        code |-> "VALIDATION_ERROR", id |-> id])
       ELSE IF ~\E warning \in warnings : warning.id = id
       THEN Respond(c, [op |-> "deleteWarning", status |-> 404,
                        code |-> "WARNING_NOT_FOUND", id |-> id])
       ELSE Await(c, [op |-> "deleteWarning", id |-> id])
    /\ UNCHANGED <<warnings, ledgerFrame>>

(* prisma.warning.delete answers, or rejects with P2025 when the row has   *)
(* gone, which the handler's catch answers 404                             *)
DeleteWarningDelete(c) ==
    /\ inflight[c].op = "deleteWarning"
    /\ LET id == inflight[c].id
       IN  IF \E warning \in warnings : warning.id = id
           THEN /\ warnings' = { w \in warnings : w.id # id }
                /\ Respond(c, [op |-> "deleteWarning", status |-> 200,
                               code |-> "OK", id |-> id])
           ELSE /\ warnings' = warnings
                /\ Respond(c, [op |-> "deleteWarning", status |-> 404,
                               code |-> "WARNING_NOT_FOUND", id |-> id])
    /\ UNCHANGED ledgerFrame

----------------------------------------------------------------------------
(* The Warning Ledger served to two clients whose requests interleave      *)

(* a Warning as the detection job stores it: unresolved, no resolvedAt     *)
(* (0), no resolvedBy                                                      *)
storedWarning(k, severity, createdAt) ==
    [id |-> warningIdOf(k), type |-> "lookup", severity |-> severity,
     isResolved |-> FALSE, resolvedAt |-> 0, resolvedBy |-> "null",
     createdAt |-> createdAt]

LedgerWarnings == { storedWarning(1, "HIGH", 1), storedWarning(2, "MEDIUM", 1) }

resolved == <<"r", "e", "s", "o", "l", "v", "e", "d">>

(* the ids of the requests: the two Warnings, an id no Warning has, and a  *)
(* string that is no cuid                                                  *)
RequestIds == { w.id : w \in LedgerWarnings } \cup { warningIdOf(9), resolved }

(* the bodies of the resolve-bulk requests *)
BulkBodies ==
    { [isArray |-> TRUE, items |-> items] :
        items \in { <<>>, <<warningIdOf(1)>>, <<warningIdOf(9), warningIdOf(2)>>,
                    <<warningIdOf(1), warningIdOf(2), warningIdOf(1)>> } }
    \cup { [isArray |-> FALSE, items |-> <<>>] }

InitLedger ==
    /\ lookups = SeedLookups
    /\ lookupValues = {}
    /\ nextValueId = 1
    /\ warnings = LedgerWarnings
    /\ nextWarningId = 1 + Cardinality(LedgerWarnings)
    /\ InitNoJob
    /\ InitEngineIdle

NextLedger ==
    \E c \in Clients :
        \/ \E id \in RequestIds : ResolveWarningFind(c, id)
        \/ ResolveWarningUpdate(c)
        \/ \E body \in BulkBodies : ResolveWarningsBulk(c, body)
        \/ ClearResolvedWarnings(c)
        \/ \E id \in RequestIds : DeleteWarningFind(c, id)
        \/ DeleteWarningDelete(c)

SpecLedger == InitLedger /\ [][NextLedger]_vars

(* the Warning of the ledger with the id, as a set of none or one *)
warningOf(ws, id) == { w \in ws : w.id = id }

(* every row of ws but the one with the id is in vs as it was *)
othersUnchanged(ws, vs, id) ==
    { w \in ws : w.id # id } = { w \in vs : w.id # id }

BulkResolvesUnresolvedListed ==
    [][ \A c \in Clients, body \in { b \in BulkBodies : b.isArray } :
          ResolveWarningsBulk(c, body) =>
             LET hit == { w \in warnings :
                            w.id \in SeqToSet(body.items) /\ ~w.isResolved }
             IN  /\ response'.status = 200
                 /\ response'.resolvedCount = Cardinality(hit)
                 /\ { w.id : w \in warnings' } = { w.id : w \in warnings }
                 /\ \A w \in warnings :
                       IF w \in hit
                       THEN \E v \in warnings' :
                               /\ v.id = w.id
                               /\ v.isResolved
                               /\ v.severity = w.severity
                               /\ v.createdAt = w.createdAt
                       ELSE w \in warnings' ]_vars

(* a bulk request that names a Warning resolved before, the other Warning  *)
(* and no more has resolved the other one only                             *)
WitnessBulkSkipsResolved ==
    /\ response.op = "resolveWarningsBulk"
    /\ response.warningIds = <<warningIdOf(1), warningIdOf(2), warningIdOf(1)>>
    /\ response.resolvedCount = 1
    /\ \E w \in warnings : w.id = warningIdOf(1) /\ w.resolvedAt = 1
    /\ \E w \in warnings : w.id = warningIdOf(2) /\ w.resolvedAt = 2

(* C24: clearResolved() deletes exactly the Warnings with isResolved =     *)
(* true and reports their number; the unresolved ones stay as they were.   *)
ClearResolvedDeletesResolvedOnly ==
    [][ \A c \in Clients :
          ClearResolvedWarnings(c) =>
             /\ response'.status = 200
             /\ response'.deletedCount =
                   Cardinality({ w \in warnings : w.isResolved })
             /\ warnings' = { w \in warnings : ~w.isResolved } ]_vars

(* clearResolved has deleted the one resolved Warning, the other is there *)
WitnessClearKeepsUnresolved ==
    /\ response.op = "clearResolvedWarnings"
    /\ response.deletedCount = 1
    /\ \E w \in warnings : ~w.isResolved

(* two clients that send resolve requests and nothing else *)
NextRace ==
    \E c \in Clients :
        \/ \E id \in RequestIds : ResolveWarningFind(c, id)
        \/ ResolveWarningUpdate(c)

SpecRace == InitLedger /\ [][NextRace]_vars

(* C27: of two resolve calls for the same unresolved Warning that          *)
(* interleave, the one that writes second is answered                      *)
(* WARNING_ALREADY_RESOLVED, and no step changes the resolvedBy or the     *)
(* resolvedAt of a Warning that is resolved.                               *)
InterleavedResolvesOneWins ==
    [][ /\ \A c \in Clients :
              ( /\ ResolveWarningUpdate(c)
                /\ \E w \in warningOf(warnings, inflight[c].id) : w.isResolved )
              => response'.code = "WARNING_ALREADY_RESOLVED"
        /\ \A w \in warnings :
              w.isResolved =>
                 \A v \in warningOf(warnings', w.id) :
                    /\ v.resolvedBy = w.resolvedBy
                    /\ v.resolvedAt = w.resolvedAt ]_vars

----------------------------------------------------------------------------
(* Warning Ledger: WarningController.listWarnings with its page            *)

takeCap == 100       \* take: Math.min(limit, 100)
defaultLimit == 50   \* limit when the query has none

digitOf(ch) ==
    CASE ch = "0" -> 0 [] ch = "1" -> 1 [] ch = "2" -> 2 [] ch = "3" -> 3
      [] ch = "4" -> 4 [] ch = "5" -> 5 [] ch = "6" -> 6 [] ch = "7" -> 7
      [] ch = "8" -> 8 [] ch = "9" -> 9

isDigit(ch) == ch \in {"0", "1", "2", "3", "4", "5", "6", "7", "8", "9"}

(* parseInt(val, 10) of a string that starts with a digit: the number its  *)
(* leading digits write                                                    *)
RECURSIVE parseIntAcc(_, _)
parseIntAcc(s, n) ==
    IF s = <<>> \/ ~isDigit(Head(s)) THEN n
    ELSE parseIntAcc(Tail(s), 10 * n + digitOf(Head(s)))

parseInt(s) == parseIntAcc(s, 0)

(* a query parameter, "absent" when the query does not carry it *)
param(query, key) == IF key \in DOMAIN query THEN query[key] ELSE "absent"

(* val ? parseInt(val, 10) : fallback *)
numberOr(query, key, fallback) ==
    IF key \in DOMAIN query /\ query[key] # <<>>
    THEN parseInt(query[key])
    ELSE fallback

(* whereClause of listWarnings *)
listWhere(w, query) ==
    /\ whereClause(w, param(query, "type"), param(query, "resolved"))
    /\ (param(query, "severity") # "absent" => w.severity = query.severity)

(* the order of the severity enum: LOW, MEDIUM, HIGH, CRITICAL *)
severityRank(severity) ==
    CASE severity = "LOW" -> 1
      [] severity = "MEDIUM" -> 2
      [] severity = "HIGH" -> 3
      [] severity = "CRITICAL" -> 4

(* the k of warningIdOf(k): the place of the row in the table *)
insertedAs(id) == parseInt(SubSeq(id, 9, Len(id)))

(* orderBy [{ isResolved: "asc" }, { severity: "desc" }, { createdAt:      *)
(* "desc" }] as the tuple the rows are sorted by, smallest first; rows     *)
(* equal in all three come as they lie in the table                        *)
orderByKey(w) ==
    << IF w.isResolved THEN 1 ELSE 0,
       0 - severityRank(w.severity),
       0 - w.createdAt,
       insertedAs(w.id) >>

RECURSIVE keyLess(_, _)
keyLess(a, b) ==
    /\ a # <<>>
    /\ \/ Head(a) < Head(b)
       \/ Head(a) = Head(b) /\ keyLess(Tail(a), Tail(b))

(* the rows that match, each with the number of rows that come before it;  *)
(* the keys are bound to a variable so that they are computed once         *)
ranked(matching) ==
    UNION { { <<Cardinality({ q \in keyed : keyLess(q[1], p[1]) }), p[2]>>
              : p \in keyed }
            : keyed \in { { <<orderByKey(w), w>> : w \in matching } } }

(* findMany({ where, orderBy, take, skip }) over the rows that match *)
findManyPage(matching, take, skip) ==
    LET n == Min(take, IF Cardinality(matching) > skip
                       THEN Cardinality(matching) - skip ELSE 0)
    IN  CHOOSE page \in
            { [i \in 1..n |-> (CHOOSE p \in rows : p[1] = skip + i - 1)[2]]
              : rows \in { ranked(matching) } } : TRUE

(* WarningController.listWarnings as a function of the table *)
listWarnings(ws, query) ==
    LET limit == numberOr(query, "limit", defaultLimit)
        offset == numberOr(query, "offset", 0)
        matching == { w \in ws : listWhere(w, query) }
        total == Cardinality(matching)
    IN  [warnings |-> findManyPage(matching, Min(limit, takeCap), offset),
         pagination |-> [total |-> total, limit |-> limit, offset |-> offset,
                         hasMore |-> offset + limit < total]]

(* WarningController.listWarnings: the request is answered *)
ListWarningsPage(c, query) ==
    /\ inflight[c] = Idle
    /\ Respond(c, [op |-> "listWarnings", status |-> 200, query |-> query,
                   data |-> listWarnings(warnings, query)])
    /\ UNCHANGED <<warnings, ledgerFrame>>

----------------------------------------------------------------------------
(* Pages of the Warning Ledger: tables of none, a few and takeCap + 1      *)
(* Warnings, some of them resolved by resolve-bulk requests                *)

listedWarning(k) ==
    storedWarning(k, IF k % 2 = 1 THEN "MEDIUM" ELSE "HIGH", (k + 1) \div 2)

ListTables == { { listedWarning(k) : k \in 1..n } : n \in {0, 2, 3, takeCap + 1} }

ListQueries ==
    { [k \in {} |-> "absent"],
      [resolved |-> "true"],
      [resolved |-> "false"],
      [type |-> "lookup"],
      [type |-> "set"],
      [severity |-> "HIGH"],
      [limit |-> <<"2">>],
      [limit |-> <<"0">>],
      [limit |-> <<"1", "0", "0">>],
      [limit |-> <<"2", "0", "0">>],
      [offset |-> <<"2">>],
      [limit |-> <<"2">>, offset |-> <<"1">>],
      [limit |-> <<"2", "0", "0">>, offset |-> <<"1">>],
      [resolved |-> "true", limit |-> <<"1">>] }

InitList ==
    /\ lookups = SeedLookups
    /\ lookupValues = {}
    /\ nextValueId = 1
    /\ warnings \in ListTables
    /\ nextWarningId = 1 + Cardinality(warnings)
    /\ InitNoJob
    /\ InitEngineIdle

(* one client lists, and resolves the first Warning or the first two *)
NextList ==
    \/ \E query \in ListQueries : ListWarningsPage("c1", query)
    \/ \E items \in { <<warningIdOf(1)>>, <<warningIdOf(1), warningIdOf(2)>> } :
          ResolveWarningsBulk("c1", [isArray |-> TRUE, items |-> items])

SpecList == InitList /\ [][NextList]_vars

listAnswered == response.op = "listWarnings"

(* b does not belong before a: unresolved before resolved, then the higher *)
(* severity, then the later createdAt                                      *)
inListOrder(a, b) ==
    /\ a.isResolved => b.isResolved
    /\ a.isResolved = b.isResolved =>
          /\ severityRank(a.severity) >= severityRank(b.severity)
          /\ a.severity = b.severity => a.createdAt >= b.createdAt

(* C25: a list request without the resolved parameter answers Warnings of  *)
(* both resolution states: only Warnings that pass the type and severity   *)
(* filters, all of them when they fit the default page, unresolved before  *)
(* resolved, then by severity from high to low, then newest first.         *)
ListWithoutResolvedAnswersBoth ==
    (listAnswered /\ "resolved" \notin DOMAIN response.query) =>
        LET q == response.query
            page == response.data.warnings
            wanted == { w \in warnings :
                          /\ "type" \in DOMAIN q => w.type = q.type
                          /\ "severity" \in DOMAIN q => w.severity = q.severity }
        IN  /\ SeqToSet(page) \subseteq wanted
            /\ \A i, j \in 1..Len(page) : i < j => inListOrder(page[i], page[j])
            /\ ( /\ "limit" \notin DOMAIN q
                 /\ "offset" \notin DOMAIN q
                 /\ Cardinality(wanted) <= defaultLimit )
               => SeqToSet(page) = wanted

(* C26: a list answer holds at most 100 Warnings, at most 50 when the      *)
(* request has no limit, and hasMore is true exactly when Warnings that    *)
(* match the filter lie beyond offset plus the number of rows answered.    *)
ListPageCappedAndHasMoreExact ==
    listAnswered =>
        LET page == response.data.warnings
            pagination == response.data.pagination
            matching == { w \in warnings : listWhere(w, response.query) }
        IN  /\ Len(page) <= takeCap
            /\ "limit" \notin DOMAIN response.query => Len(page) <= defaultLimit
            /\ pagination.hasMore <=>
                  (pagination.offset + Len(page) < Cardinality(matching))

----------------------------------------------------------------------------
(* Executions of WarningDetectionJob.execute() that overlap: wrappedTask   *)
(* is started by a tick while an earlier execution still awaits the store. *)
(* Each execution is held in a slot of inflight with its local `warnings`. *)

overlapFrame == <<lookups, lookupValues, nextValueId, jobPc, jobWarnings,
                  jobRead, jobPrior, lastRun, observed, cronVars, serverVars,
                  setVars>>

(* wrappedTask calls execute(); prisma.$queryRaw`SELECT 1` answers *)
ExecuteSelect(e) ==
    /\ inflight[e] = Idle
    /\ jobRuns < MaxRuns
    /\ jobRuns' = jobRuns + 1
    /\ Await(e, [op |-> "execute", pc |-> "started", warnings |-> <<>>])
    /\ UNCHANGED <<warnings, nextWarningId, overlapFrame>>

(* prisma.lookup.findMany answers and the loop fills `warnings` *)
ExecuteFindMany(e) ==
    /\ inflight[e].op = "execute"
    /\ inflight[e].pc = "started"
    /\ Await(e, [op |-> "execute", pc |-> "scanned",
                 warnings |-> computeWarnings(lookups, lookupValues)])
    /\ UNCHANGED <<warnings, nextWarningId, jobRuns, overlapFrame>>

(* prisma.warning.deleteMany({ where: { type: "lookup" } }) answers *)
ExecuteDeleteMany(e) ==
    /\ inflight[e].op = "execute"
    /\ inflight[e].pc = "scanned"
    /\ warnings' = deleteMany(warnings)
    /\ Await(e, [inflight[e] EXCEPT !.pc = "deleted"])
    /\ UNCHANGED <<nextWarningId, jobRuns, overlapFrame>>

(* prisma.warning.createMany answers (skipped for an empty array) and      *)
(* execute() returns                                                       *)
ExecuteCreateMany(e) ==
    /\ inflight[e].op = "execute"
    /\ inflight[e].pc = "deleted"
    /\ IF Len(inflight[e].warnings) > 0
       THEN /\ warnings' = createMany(warnings, inflight[e].warnings,
                                      nextWarningId)
            /\ nextWarningId' = nextWarningId + Len(inflight[e].warnings)
       ELSE UNCHANGED <<warnings, nextWarningId>>
    /\ inflight' = [inflight EXCEPT ![e] = Idle]
    /\ response' = NoResponse
    /\ UNCHANGED <<jobRuns, overlapFrame>>

(* the LookupValue tables the executions run over: none, a pair repeated,  *)
(* a left repeated, one row in each Lookup, a right repeated, one row      *)
OverlapTables ==
    { TableOf(f) : f \in { <<>>,
        <<[lookupId |-> 1, left |-> <<"a">>, right |-> <<"a">>],
          [lookupId |-> 1, left |-> <<"a">>, right |-> <<"a">>]>>,
        <<[lookupId |-> 1, left |-> <<"a">>, right |-> <<"a">>],
          [lookupId |-> 1, left |-> <<"a">>, right |-> <<"|">>],
          [lookupId |-> 2, left |-> <<"a">>, right |-> <<"|">>]>>,
        <<[lookupId |-> 1, left |-> <<"a">>, right |-> <<"a">>],
          [lookupId |-> 2, left |-> <<"a">>, right |-> <<"a">>]>>,
        <<[lookupId |-> 2, left |-> <<"|">>, right |-> <<"a">>],
          [lookupId |-> 2, left |-> <<"a">>, right |-> <<"a">>]>>,
        <<[lookupId |-> 1, left |-> <<"|">>, right |-> <<"|">>]>> } }

InitOverlap ==
    /\ InitIdle
    /\ InitEngineIdle
    /\ lookupValues \in OverlapTables
    /\ nextValueId = 1 + Cardinality(lookupValues)

NextOverlap ==
    \E e \in Clients :
        \/ ExecuteSelect(e)
        \/ ExecuteFindMany(e)
        \/ ExecuteDeleteMany(e)
        \/ ExecuteCreateMany(e)

SpecOverlap == InitOverlap /\ [][NextOverlap]_vars

(* C28: when every execution that was started has returned, the stored     *)
(* lookup Warnings are the findings of one run over the LookupValue rows,  *)
(* each as often as one run stores it.                                     *)
OverlappingRunsLeaveOneResult ==
    (jobRuns > 0 /\ \A e \in Clients : inflight[e] = Idle) =>
        BagOfStored(lookupWarningsStored(warnings))
            = BagOfSeq(computeWarnings(lookups, lookupValues))

----------------------------------------------------------------------------
(* express.Router: the routes are tried in the order of their registration *)
(* and the first whose method and path match gets the request; none of    *)
(* the handlers calls next()                                               *)

(* the segments of a route path: a literal, or a :parameter *)
lit(chars) == [lit |-> chars]
par(name) == [param |-> name]

isParam(segment) == "param" \in DOMAIN segment

matches(pattern, path) ==
    /\ Len(pattern) = Len(path)
    /\ \A i \in 1..Len(path) : isParam(pattern[i]) \/ pattern[i].lit = path[i]

(* req.params of a request that matches *)
paramsOf(pattern, path) ==
    [name \in { pattern[i].param : i \in { j \in 1..Len(pattern) :
                                            isParam(pattern[j]) } } |->
        path[CHOOSE i \in 1..Len(pattern) :
                 isParam(pattern[i]) /\ pattern[i].param = name]]

firstMatch(hits) == CHOOSE i \in hits : \A j \in hits : i <= j

(* the handler the router calls, with req.params; notFoundHandler when no  *)
(* route matches                                                           *)
dispatch(routes, method, path) ==
    LET hits == { i \in 1..Len(routes) :
                    routes[i].method = method /\ matches(routes[i].path, path) }
    IN  IF hits = {}
        THEN [handler |-> "notFoundHandler", params |-> <<>>]
        ELSE [handler |-> routes[firstMatch(hits)].handler,
              params |-> paramsOf(routes[firstMatch(hits)].path, path)]

route(method, path, handler) ==
    [method |-> method, path |-> path, handler |-> handler]

stats == <<"s", "t", "a", "t", "s">>
resolve == <<"r", "e", "s", "o", "l", "v", "e">>
resolveBulk == <<"r", "e", "s", "o", "l", "v", "e", "-", "b", "u", "l", "k">>

(* routes/v1/warning.routes.ts *)
warningRoutes ==
    << route("GET", <<>>, "listWarnings"),
       route("GET", <<lit(stats)>>, "getWarningStats"),
       route("GET", <<par("id")>>, "getWarning"),
       route("POST", <<par("id"), lit(resolve)>>, "resolveWarning"),
       route("POST", <<lit(resolveBulk)>>, "resolveWarningsBulk"),
       route("DELETE", <<par("id")>>, "deleteWarning"),
       route("DELETE", <<lit(resolved)>>, "clearResolvedWarnings") >>

values == <<"v", "a", "l", "u", "e", "s">>
bulk == <<"b", "u", "l", "k">>
containsPath == <<"c", "o", "n", "t", "a", "i", "n", "s">>
clear == <<"c", "l", "e", "a", "r">>
deleteList == <<"d", "e", "l", "e", "t", "e", "-", "l", "i", "s", "t">>

(* routes/v1/set.routes.ts *)
setRoutes ==
    << route("GET", <<>>, "listSets"),
       route("POST", <<>>, "createSet"),
       route("POST", <<par("set"), lit(values)>>, "addSetValue"),
       route("POST", <<par("set"), lit(values), lit(bulk)>>, "addSetValuesBulk"),
       route("POST", <<par("set"), lit(containsPath)>>, "checkSetValue"),
       route("POST", <<par("set"), lit(containsPath), lit(bulk)>>,
             "checkSetValuesBulk"),
       route("DELETE", <<par("set"), lit(values), par("valueId")>>,
             "removeSetValue"),
       route("GET", <<par("set"), lit(values)>>, "getSetValues"),
       route("PUT", <<par("set"), lit(values), par("valueId")>>,
             "updateSetValue"),
       route("DELETE", <<par("set"), lit(values), lit(clear)>>, "clearSetValues"),
       route("POST", <<par("set"), lit(values), lit(deleteList)>>,
             "deleteMultipleSetValues"),
       route("PUT", <<par("set")>>, "updateSet"),
       route("DELETE", <<par("set")>>, "deleteSet"),
       route("GET", <<par("set")>>, "getSet") >>

(* app.use(notFoundHandler) *)
NotFoundHandler(c) ==
    /\ inflight[c] = Idle
    /\ Respond(c, [op |-> "notFoundHandler", status |-> 404])
    /\ UNCHANGED <<setVars, notEngineVars>>

(* WarningController.getWarningStats *)
GetWarningStats(c) ==
    /\ inflight[c] = Idle
    /\ LET total == Cardinality(warnings)
           unresolved == Cardinality({ w \in warnings : ~w.isResolved })
       IN  Respond(c, [op |-> "getWarningStats", status |-> 200,
                       total |-> total, unresolved |-> unresolved,
                       resolved |-> total - unresolved])
    /\ UNCHANGED <<warnings, ledgerFrame>>

(* WarningController.getWarning *)
GetWarning(c, id) ==
    /\ inflight[c] = Idle
    /\ IF ~cuidSchema(id)
       THEN Respond(c, [op |-> "getWarning", status |-> 400,
                        code |-> "VALIDATION_ERROR", id |-> id])
       ELSE IF warningOf(warnings, id) = {}
       THEN Respond(c, [op |-> "getWarning", status |-> 404,
                        code |-> "WARNING_NOT_FOUND", id |-> id])
       ELSE Respond(c, [op |-> "getWarning", status |-> 200,
                        code |-> "OK", id |-> id])
    /\ UNCHANGED <<warnings, ledgerFrame>>

(* a request to /api/v1/warnings: the router calls the one handler of the *)
(* first matching route                                                   *)
WarningsRequest(c, method, path) ==
    LET to == dispatch(warningRoutes, method, path)
    IN  CASE to.handler = "listWarnings" ->
                ListWarningsPage(c, [k \in {} |-> "absent"])
          [] to.handler = "getWarningStats" -> GetWarningStats(c)
          [] to.handler = "getWarning" -> GetWarning(c, to.params.id)
          [] to.handler = "resolveWarning" ->
                ResolveWarningFind(c, to.params.id)
          [] to.handler = "resolveWarningsBulk" ->
                \E body \in BulkBodies : ResolveWarningsBulk(c, body)
          [] to.handler = "deleteWarning" -> DeleteWarningFind(c, to.params.id)
          [] to.handler = "clearResolvedWarnings" -> ClearResolvedWarnings(c)
          [] to.handler = "notFoundHandler" -> NotFoundHandler(c)

(* the requests sent to /api/v1/warnings *)
WarningPaths ==
    { <<>>, <<stats>>, <<resolved>>, <<resolveBulk>> }
    \cup { <<w.id>> : w \in LedgerWarnings }
    \cup { <<w.id, resolve>> : w \in LedgerWarnings }

NextWarningRoutes ==
    \E c \in Clients :
        \/ \E method \in {"GET", "POST", "DELETE"}, path \in WarningPaths :
              WarningsRequest(c, method, path)
        \/ ResolveWarningUpdate(c)
        \/ DeleteWarningDelete(c)

SpecWarningRoutes == InitLedger /\ [][NextWarningRoutes]_vars

(* C29: DELETE /api/v1/warnings/resolved is answered by                    *)
(* clearResolvedWarnings, which leaves the unresolved Warnings and no      *)
(* other.                                                                  *)
DeleteResolvedClearsResolved ==
    [][ \A c \in Clients :
          WarningsRequest(c, "DELETE", <<resolved>>) =>
             /\ response'.op = "clearResolvedWarnings"
             /\ warnings' = { w \in warnings : ~w.isResolved } ]_vars

----------------------------------------------------------------------------
(* Requests to /api/v1/sets *)

(* setIdParamSchema: set is z.string().min(1) *)
setIdParamSchema(set) == Len(set) >= 1

(* the where clause of clearSetValues' deleteMany *)
clearValuesWhere(v, setData) == v.setId = setData.id

(* SetController.clearSetValues, up to prisma.set.findFirst *)
ClearSetValuesFind(c, set) ==
    /\ inflight[c] = Idle
    /\ LET setData == findSetByName(sets, set)
       IN  IF ~setIdParamSchema(set)
           THEN Respond(c, [op |-> "clearSetValues", status |-> 400,
                            code |-> "VALIDATION_ERROR"])
           ELSE IF setData.id = NoSet.id
           THEN Respond(c, [op |-> "clearSetValues", status |-> 404,
                            code |-> "SET_NOT_FOUND"])
           ELSE Await(c, [op |-> "clearSetValues", setData |-> setData])
    /\ UNCHANGED <<setVars, notEngineVars>>

(* SetController.clearSetValues, prisma.setValue.deleteMany and the answer *)
ClearSetValuesDeleteMany(c) ==
    /\ inflight[c].op = "clearSetValues"
    /\ LET setData == inflight[c].setData
       IN  /\ setValues' = { v \in setValues : ~clearValuesWhere(v, setData) }
           /\ Respond(c, [op |-> "clearSetValues", status |-> 200,
                          code |-> "OK", setData |-> setData])
    /\ UNCHANGED <<sets, nextSetId, nextSetValueId, notEngineVars>>

(* a request to /api/v1/sets: the router calls the one handler of the     *)
(* first matching route; value is req.body.value                          *)
SetsRequest(c, method, path, value) ==
    LET to == dispatch(setRoutes, method, path)
    IN  CASE to.handler = "addSetValue" ->
                AddSetValueFind(c, to.params.set, value)
          [] to.handler = "removeSetValue" ->
                RemoveSetValueFind(c, to.params.set, to.params.valueId)
          [] to.handler = "clearSetValues" ->
                ClearSetValuesFind(c, to.params.set)
          [] to.handler = "deleteSet" -> DeleteSetFind(c, to.params.set)
          [] to.handler = "notFoundHandler" -> NotFoundHandler(c)

(* the store answers the call a handler awaits, and the handler goes on *)
StoreAnswers(c) ==
    CASE inflight[c].op = "addSetValue" -> AddSetValueCreate(c)
      [] inflight[c].op = "removeSetValue" -> RemoveSetValueDeleteMany(c)
      [] inflight[c].op = "clearSetValues" -> ClearSetValuesDeleteMany(c)
      [] inflight[c].op = "deleteSet" ->
            DeleteSetDeleteMany(c) \/ DeleteSetDelete(c) \/ DeleteSetThrows(c)
      [] OTHER -> FALSE

missing == <<"m", "i", "s", "s", "i", "n", "g">>

(* the Sets named in the requests *)
RoutedSets == { orders, customers, missing }

(* the values added: a value, and the value whose text is "clear" *)
RoutedValues == { <<"x">>, clear }

(* the last segment of DELETE /:set/values/:valueId *)
RoutedKeys == RoutedValues \cup { valueIdOf(1) }

(* the requests of one client, one after the other and interleaved with   *)
(* those of a second that only adds                                       *)
NextSetRoutes ==
    \/ \E c \in Clients, set \in RoutedSets, value \in RoutedValues :
          /\ nextSetValueId <= MaxSetValues
          /\ SetsRequest(c, "POST", <<set, values>>, value)
    \/ \E set \in RoutedSets, key \in RoutedKeys :
          SetsRequest("c1", "DELETE", <<set, values, key>>, <<>>)
    \/ \E set \in RoutedSets : SetsRequest("c1", "DELETE", <<set>>, <<>>)
    \/ SetsRequest("c1", "DELETE", <<>>, <<>>)
    \/ \E c \in Clients : StoreAnswers(c)

SpecSetRoutes == InitValues /\ [][NextSetRoutes]_vars

(* C30: DELETE /api/v1/sets/:set/values/clear is given to clearSetValues,  *)
(* never to removeSetValue, and when clearSetValues has answered the Set   *)
(* has no value left.                                                      *)
DeleteValuesClearClearsSet ==
    [][ \A c \in Clients, set \in RoutedSets :
          /\ SetsRequest(c, "DELETE", <<set, values, clear>>, <<>>) =>
                \/ inflight'[c].op = "clearSetValues"
                \/ response'.op = "clearSetValues"
          /\ (inflight[c].op = "clearSetValues" /\ StoreAnswers(c)) =>
                ~ \E v \in setValues' : v.setId = inflight[c].setData.id ]_vars

====
